---------------------------- MODULE Spec2Model ----------------------------
(***************************************************************************)
(* State-machine model of the AMM contracts of the repository:             *)
(*   - multiswap  (src/multiswap/src/lib.rs, pool.rs): the multi-pool      *)
(*     contract with its deposit ledger;                                   *)
(*   - uniswap    (src/uniswap/src/lib.rs): the constant-product exchange; *)
(*   - balancer-pool (src/balancer-pool/src/lib.rs): the weighted pool.    *)
(*                                                                         *)
(* Every action is one external call of a contract.  A call that panics    *)
(* (assert!, expect, unwrap, index out of range) is a failed NEAR function *)
(* call: none of its storage writes and none of the promises it created    *)
(* take effect.  The variable last records the most recent call: for a     *)
(* successful call its arguments, what it returned and the promises        *)
(* (outgoing transfers) it scheduled; for a failed call the operation and  *)
(* the panic message.                                                      *)
(*                                                                         *)
(* Balances are u128 in the source.  TLC integers are 32 bit, so the model *)
(* works with small amounts (every balance stays <= MaxBalance) and the    *)
(* one large program constant, INIT_SHARES_SUPPLY, is scaled down.         *)
(***************************************************************************)
EXTENDS Integers, Sequences, FiniteSets, TLC

VARIABLES
    contract,           \* what is modelled: "multiswap", "pool" (a Pool on its
                        \* own, in pools[1]), "uniswap" or "balancer"
    pools,              \* multiswap Contract.pools : Vector<Pool>
    deposited_amounts,  \* multiswap Contract.deposited_amounts
    uniswap,            \* the fields of the uniswap Contract
    bpool,              \* the fields of the balancer BPool
    last                \* the most recent external call and its outcome

vars == <<contract, pools, deposited_amounts, uniswap, bpool, last>>

-----------------------------------------------------------------------------
(* Bounds of the model *)

\* No balance, reserve or share amount of a reachable state of the multiswap
\* contract exceeds MaxBalance; PoolMaxBalance is the same for a Pool driven
\* directly and UniswapMaxBalance for the uniswap contract.
MaxBalance == 7
PoolMaxBalance == 6
\* The largest reserve and the largest amount paid in where the pricing of a
\* swap is checked over every pair of reserves.
QuoteMaxReserve == 10
UniswapMaxBalance == 5

(* Program constants *)

\* pool.rs:8 and uniswap lib.rs:11
FEE_DIVISOR == 1000
\* pool.rs:9
MAX_NUM_TOKENS == 10
\* pool.rs:10 (10^21 in the source; scaled to fit TLC's integers)
INIT_SHARES_SUPPLY == 4
\* lib.rs:68, the literal in internal_deposit's assertion
MAX_DEPOSIT_TOKENS == 10

(* Inputs *)

Accounts == {"alice", "bob"}
NEAR == "near"

\* multiswap contract: the ids of the pools the model creates
PoolIds == {0}
MaxPools == Cardinality(PoolIds)
\* add_pool: token lists and fees (two valid fees and FEE_DIVISOR itself)
Tokens == {"dai", "eth"}
PoolTokenLists == {<<"dai", "eth">>}
Fees == {0, 3, FEE_DIVISOR}
\* ft_on_transfer: deposits, swaps and a message of another shape
DepositAmounts == {0, 5}
SwapAmounts == {0, 2}
MinAmountsOut == {1, 3}
DepositMsg == [kind |-> "deposit", pool_id |-> 0, token_out |-> "", min_amount_out |-> 0]
OtherMsg == [kind |-> "other", pool_id |-> 0, token_out |-> "", min_amount_out |-> 0]
SwapMsgs ==
    [kind : {"swap"}, pool_id : PoolIds, token_out : Tokens,
     min_amount_out : MinAmountsOut]
Deposits ==
    [token_in : Tokens, sender_id : {"alice"}, amount : DepositAmounts, msg : {DepositMsg}]
    \cup [token_in : {"dai"}, sender_id : {"bob"}, amount : DepositAmounts,
          msg : {DepositMsg}]
SwapTransfers ==
    [token_in : Tokens, sender_id : {"bob"}, amount : SwapAmounts, msg : SwapMsgs]
    \cup [token_in : {"dai"}, sender_id : {"bob"}, amount : {2}, msg : {OtherMsg}]
\* add_liquidity: the amounts a caller means to add, no more than it holds
SpecifiedAmounts == {<<2, 3>>, <<5, 5>>}
\* remove_liquidity: shares and min_amounts
SharesArgs == {INIT_SHARES_SUPPLY, INIT_SHARES_SUPPLY + 1}
MinAmountsArgs == {<<0, 0>>, <<1, 6>>}
\* withdraw: amounts
WithdrawAmounts == {2, 5, 6}
\* the multi-action swap: lists of actions; amount_in -1 is None
SwapAction(pool_id, token_in, amount_in, token_out, min_amount_out) ==
    [pool_id |-> pool_id, token_in |-> token_in, amount_in |-> amount_in,
     token_out |-> token_out, min_amount_out |-> min_amount_out]
ActionLists ==
    {<<SwapAction(0, "dai", 2, "eth", 1)>>,
     <<SwapAction(0, "dai", -1, "eth", 1)>>,
     <<SwapAction(0, "dai", 2, "eth", 1), SwapAction(0, "eth", 1, "dai", 1)>>,
     <<SwapAction(0, "dai", 2, "eth", 1), SwapAction(0, "eth", 1, "dai", 3)>>,
     <<SwapAction(0, "dai", 2, "eth", 1), SwapAction(1, "eth", 1, "dai", 1)>>,
     <<SwapAction(0, "dai", 2, "eth", 1), SwapAction(0, "eth", 6, "dai", 1)>>}

\* Pool driven directly, as by pool.rs's unit test: a pool of three tokens
PoolTokens == <<"dai", "eth", "usdt">>
PoolFees == {0, 3}
PoolAmountsArgs == {<<4, 5, 2>>}
PoolSwapTokens == {"dai", "eth", "usdt", "btc"}
PoolSwapAmounts == {0, 2}
PoolSharesArgs == {2, INIT_SHARES_SUPPLY, INIT_SHARES_SUPPLY + 1}
PoolMinAmountsArgs == {<<0, 0, 0>>, <<1, 2, 0>>}

\* the pricing of a swap: fees over the whole range, every pair of reserves
QuoteTokens == <<"dai", "eth">>
QuoteFees == {0, 3, 500, FEE_DIVISOR - 1}
QuoteReserves == 0..QuoteMaxReserve
QuoteAmounts == 0..QuoteMaxReserve
QuoteMinAmountsOut == {0, 1}

\* uniswap contract
UniswapFees == {0, 3}
UniswapNearAmounts == {0, 2}
UniswapTokenAmounts == {0, 2, 5}
UniswapSharesArgs == {0, 1, 2}
\* the largest NEAR amount an account has pending in the model
UniswapMaxPending ==
    CHOOSE n \in UniswapNearAmounts : \A m \in UniswapNearAmounts : m <= n
UniswapMinAmounts == {1, 3}
UniswapMsgs ==
    {[kind |-> "liquidity", min_near_amount |-> 0],
     [kind |-> "other", min_near_amount |-> 0]}
    \cup [kind : {"min"}, min_near_amount : UniswapMinAmounts]

-----------------------------------------------------------------------------
(* Maps (LookupMap, HashMap) are functions with a finite domain. *)

EmptyMap == [k \in {} |-> 0]
MapInsert(m, k, v) == [x \in (DOMAIN m) \cup {k} |-> IF x = k THEN v ELSE m[x]]
MapRemove(m, k) == [x \in (DOMAIN m) \ {k} |-> m[x]]
MapGetOr(m, k, d) == IF k \in DOMAIN m THEN m[k] ELSE d

RECURSIVE SumMap(_)
SumMap(m) ==
    IF DOMAIN m = {} THEN 0
    ELSE LET k == CHOOSE x \in DOMAIN m : TRUE
         IN m[k] + SumMap(MapRemove(m, k))

\* A promise created by a call: a transfer of amount of token to receiver.
Transfer(receiver, token, amount) ==
    [receiver_id |-> receiver, token |-> token, amount |-> amount]

-----------------------------------------------------------------------------
(* multiswap: Pool (pool.rs) *)

\* add_to_collection: c[key] := c.get(key).unwrap_or(0) + amount
add_to_collection(c, key, amount) == MapInsert(c, key, MapGetOr(c, key, 0) + amount)

\* Pool::new.  The result is [ok, err, pool].
Pool_new(id, token_account_ids, fee) ==
    IF ~(fee < FEE_DIVISOR) THEN [ok |-> FALSE, err |-> "ERR_FEE_TOO_LARGE"]
    ELSE IF ~(Len(token_account_ids) < MAX_NUM_TOKENS)
    THEN [ok |-> FALSE, err |-> "ERR_TOO_MANY_TOKENS"]
    ELSE [ok |-> TRUE, err |-> "",
          pool |-> [token_account_ids |-> token_account_ids,
                    amounts |-> [i \in 1..Len(token_account_ids) |-> 0],
                    fee |-> fee,
                    shares |-> EmptyMap,
                    shares_total_supply |-> 0]]

\* A faulty Pool::add_liquidity: every provision is handled as the first.
Pool_add_liquidity_always_first(pool, sender_id, amounts) ==
    [pool |-> [pool EXCEPT
                 !.amounts = [i \in DOMAIN pool.amounts |-> pool.amounts[i] + amounts[i]],
                 !.shares_total_supply = INIT_SHARES_SUPPLY,
                 !.shares = MapInsert(pool.shares, sender_id, INIT_SHARES_SUPPLY)],
     ret |-> INIT_SHARES_SUPPLY]

\* A faulty Pool::add_liquidity: the first provision mints as many shares as
\* it deposits of the first token.
Pool_add_liquidity_mints_first_amount(pool, sender_id, amounts) ==
    IF pool.shares_total_supply > 0
    THEN [pool |-> pool, ret |-> 0]
    ELSE [pool |-> [pool EXCEPT
                      !.amounts = [i \in DOMAIN pool.amounts |-> pool.amounts[i] + amounts[i]],
                      !.shares_total_supply = amounts[1],
                      !.shares = MapInsert(pool.shares, sender_id, amounts[1])],
          ret |-> amounts[1]]

\* Pool::add_liquidity.  The result is [pool, ret]; it cannot panic for
\* amounts of the pool's length.
Pool_add_liquidity(pool, sender_id, amounts) ==
    IF pool.shares_total_supply > 0
    THEN [pool |-> pool, ret |-> 0]
    ELSE [pool |-> [pool EXCEPT
                      !.amounts = [i \in DOMAIN pool.amounts |-> pool.amounts[i] + amounts[i]],
                      !.shares_total_supply = INIT_SHARES_SUPPLY,
                      !.shares = MapInsert(pool.shares, sender_id, INIT_SHARES_SUPPLY)],
          ret |-> INIT_SHARES_SUPPLY]

\* One pass of the loop of Pool::remove_liquidity over tokens i..n: st is
\* [ok, err, pool, amounts, promises], the state of the call so far.
RECURSIVE remove_liquidity_legs(_, _, _, _, _)
remove_liquidity_legs(st, sender_id, shares, min_amounts, i) ==
    IF i > Len(st.pool.token_account_ids) THEN st
    ELSE IF st.pool.shares_total_supply = 0
    THEN [st EXCEPT !.ok = FALSE, !.err = "ERR_DIVISION_BY_ZERO"]
    ELSE LET amount == (st.pool.amounts[i] * shares) \div st.pool.shares_total_supply
         IN IF i > Len(min_amounts)
            THEN [st EXCEPT !.ok = FALSE, !.err = "ERR_INDEX_OUT_OF_BOUNDS"]
            ELSE IF ~(amount >= min_amounts[i])
            THEN [st EXCEPT !.ok = FALSE, !.err = "ERR_MIN_AMOUNT"]
            ELSE remove_liquidity_legs(
                    [st EXCEPT !.pool.amounts[i] = @ - amount,
                               !.amounts = Append(@, amount),
                               !.promises = Append(@, Transfer(sender_id,
                                                st.pool.token_account_ids[i], amount))],
                    sender_id, shares, min_amounts, i + 1)

\* A faulty Pool::remove_liquidity: the caller's share balance is not
\* compared with shares.
Pool_remove_liquidity_no_balance_check(pool, sender_id, shares, min_amounts) ==
    LET st0 == [ok |-> TRUE, err |-> "", pool |-> pool, amounts |-> <<>>, promises |-> <<>>]
        prev_shares_amount == MapGetOr(pool.shares, sender_id, 0)
        st == remove_liquidity_legs(st0, sender_id, shares, min_amounts, 1)
    IN IF ~st.ok THEN st
       ELSE [st EXCEPT
               !.pool.shares = IF prev_shares_amount = shares
                               THEN MapRemove(pool.shares, sender_id)
                               ELSE MapInsert(pool.shares, sender_id,
                                              prev_shares_amount - shares),
               !.pool.shares_total_supply = @ - shares]

\* A faulty Pool::remove_liquidity: the amounts paid out stay in the reserves.
Pool_remove_liquidity_keeps_reserves(pool, sender_id, shares, min_amounts) ==
    LET st0 == [ok |-> TRUE, err |-> "", pool |-> pool, amounts |-> <<>>, promises |-> <<>>]
    IN IF sender_id \notin DOMAIN pool.shares
       THEN [st0 EXCEPT !.ok = FALSE, !.err = "ERR_NO_SHARES"]
       ELSE LET prev_shares_amount == pool.shares[sender_id]
            IN IF ~(prev_shares_amount >= shares)
               THEN [st0 EXCEPT !.ok = FALSE, !.err = "ERR_NOT_ENOUGH_SHARES"]
               ELSE LET st == remove_liquidity_legs(st0, sender_id, shares, min_amounts, 1)
                    IN IF ~st.ok THEN st
                       ELSE [st EXCEPT
                               !.pool.amounts = pool.amounts,
                               !.pool.shares =
                                   IF prev_shares_amount = shares
                                   THEN MapRemove(pool.shares, sender_id)
                                   ELSE MapInsert(pool.shares, sender_id,
                                                  prev_shares_amount - shares),
                               !.pool.shares_total_supply = @ - shares]

\* Pool::remove_liquidity.  The result is [ok, err, pool, amounts, promises];
\* when ok is FALSE, pool and promises are what the call had done when it
\* panicked.
Pool_remove_liquidity(pool, sender_id, shares, min_amounts) ==
    LET st0 == [ok |-> TRUE, err |-> "", pool |-> pool, amounts |-> <<>>, promises |-> <<>>]
    IN IF sender_id \notin DOMAIN pool.shares
       THEN [st0 EXCEPT !.ok = FALSE, !.err = "ERR_NO_SHARES"]
       ELSE LET prev_shares_amount == pool.shares[sender_id]
            IN IF ~(prev_shares_amount >= shares)
               THEN [st0 EXCEPT !.ok = FALSE, !.err = "ERR_NOT_ENOUGH_SHARES"]
               ELSE LET st == remove_liquidity_legs(st0, sender_id, shares, min_amounts, 1)
                    IN IF ~st.ok THEN st
                       ELSE [st EXCEPT
                               !.pool.shares =
                                   IF prev_shares_amount = shares
                                   THEN MapRemove(pool.shares, sender_id)
                                   ELSE MapInsert(pool.shares, sender_id,
                                                  prev_shares_amount - shares),
                               !.pool.shares_total_supply = @ - shares]

\* Pool::token_index: the first position of token_id, 0 when it is missing
\* (the source panics with ERR_MISSING_TOKEN).
token_index(pool, token_id) ==
    LET hits == {i \in DOMAIN pool.token_account_ids : pool.token_account_ids[i] = token_id}
    IN IF hits = {} THEN 0 ELSE CHOOSE i \in hits : \A j \in hits : i <= j

\* A faulty get_return_idx: the fee is not taken from the amount paid in.
get_return_idx_no_fee(pool, token_in, amount_in, token_out) ==
    LET in_balance == pool.amounts[token_in]
        out_balance == pool.amounts[token_out]
    IN IF ~(in_balance > 0 /\ out_balance > 0 /\ token_in # token_out /\ amount_in > 0)
       THEN [ok |-> FALSE, err |-> "ERR_INVALID", ret |-> 0]
       ELSE [ok |-> TRUE, err |-> "",
             ret |-> (amount_in * out_balance) \div (in_balance + amount_in)]

\* A faulty get_return_idx: the two tokens may be the same.
get_return_idx_same_token(pool, token_in, amount_in, token_out) ==
    LET in_balance == pool.amounts[token_in]
        out_balance == pool.amounts[token_out]
    IN IF ~(in_balance > 0 /\ out_balance > 0 /\ amount_in > 0)
       THEN [ok |-> FALSE, err |-> "ERR_INVALID", ret |-> 0]
       ELSE LET amount_with_fee == amount_in * (FEE_DIVISOR - pool.fee)
            IN [ok |-> TRUE, err |-> "",
                ret |-> (amount_with_fee * out_balance)
                            \div (FEE_DIVISOR * in_balance + amount_with_fee)]

\* A faulty get_return_idx: the divisor leaves out the amount paid in.
get_return_idx_no_amount_in_divisor(pool, token_in, amount_in, token_out) ==
    LET in_balance == pool.amounts[token_in]
        out_balance == pool.amounts[token_out]
    IN IF ~(in_balance > 0 /\ out_balance > 0 /\ token_in # token_out /\ amount_in > 0)
       THEN [ok |-> FALSE, err |-> "ERR_INVALID", ret |-> 0]
       ELSE LET amount_with_fee == amount_in * (FEE_DIVISOR - pool.fee)
            IN [ok |-> TRUE, err |-> "",
                ret |-> (amount_with_fee * out_balance) \div (FEE_DIVISOR * in_balance)]

\* A faulty get_return_idx: the quotient is rounded up.
get_return_idx_rounds_up(pool, token_in, amount_in, token_out) ==
    LET in_balance == pool.amounts[token_in]
        out_balance == pool.amounts[token_out]
    IN IF ~(in_balance > 0 /\ out_balance > 0 /\ token_in # token_out /\ amount_in > 0)
       THEN [ok |-> FALSE, err |-> "ERR_INVALID", ret |-> 0]
       ELSE LET amount_with_fee == amount_in * (FEE_DIVISOR - pool.fee)
                divisor == FEE_DIVISOR * in_balance + amount_with_fee
            IN [ok |-> TRUE, err |-> "",
                ret |-> (amount_with_fee * out_balance + divisor - 1) \div divisor]

\* Pool::get_return_idx.  The result is [ok, err, ret].
get_return_idx(pool, token_in, amount_in, token_out) ==
    LET in_balance == pool.amounts[token_in]
        out_balance == pool.amounts[token_out]
    IN IF ~(in_balance > 0 /\ out_balance > 0 /\ token_in # token_out /\ amount_in > 0)
       THEN [ok |-> FALSE, err |-> "ERR_INVALID", ret |-> 0]
       ELSE LET amount_with_fee == amount_in * (FEE_DIVISOR - pool.fee)
            IN [ok |-> TRUE, err |-> "",
                ret |-> (amount_with_fee * out_balance)
                            \div (FEE_DIVISOR * in_balance + amount_with_fee)]

\* Pool::get_return.  The result is [ok, err, ret].
Pool_get_return(pool, token_in, amount_in, token_out) ==
    IF token_index(pool, token_in) = 0 \/ token_index(pool, token_out) = 0
    THEN [ok |-> FALSE, err |-> "ERR_MISSING_TOKEN", ret |-> 0]
    ELSE get_return_idx(pool, token_index(pool, token_in), amount_in,
                        token_index(pool, token_out))

\* A faulty Pool::swap: min_amount_out is not looked at.
Pool_swap_no_min_check(pool, sender_id, token_in, amount_in, token_out, min_amount_out) ==
    LET in_idx == token_index(pool, token_in)
        out_idx == token_index(pool, token_out)
        fail(e) == [ok |-> FALSE, err |-> e, pool |-> pool, amount_out |-> 0,
                    promises |-> <<>>]
    IN IF in_idx = 0 \/ out_idx = 0 THEN fail("ERR_MISSING_TOKEN")
       ELSE LET r == get_return_idx(pool, in_idx, amount_in, out_idx)
            IN IF ~r.ok THEN fail(r.err)
               ELSE [ok |-> TRUE, err |-> "",
                     pool |-> [pool EXCEPT !.amounts[in_idx] = @ + amount_in,
                                           !.amounts[out_idx] = @ - r.ret],
                     amount_out |-> r.ret,
                     promises |-> <<Transfer(sender_id, pool.token_account_ids[out_idx],
                                             r.ret)>>]

\* A faulty Pool::swap: the reserve of token_in is not increased.
Pool_swap_keeps_in_reserve(pool, sender_id, token_in, amount_in, token_out, min_amount_out) ==
    LET in_idx == token_index(pool, token_in)
        out_idx == token_index(pool, token_out)
        fail(e) == [ok |-> FALSE, err |-> e, pool |-> pool, amount_out |-> 0,
                    promises |-> <<>>]
    IN IF in_idx = 0 \/ out_idx = 0 THEN fail("ERR_MISSING_TOKEN")
       ELSE LET r == get_return_idx(pool, in_idx, amount_in, out_idx)
            IN IF ~r.ok THEN fail(r.err)
               ELSE IF ~(r.ret >= min_amount_out) THEN fail("ERR_MIN_AMOUNT")
               ELSE [ok |-> TRUE, err |-> "",
                     pool |-> [pool EXCEPT !.amounts[out_idx] = @ - r.ret],
                     amount_out |-> r.ret,
                     promises |-> <<Transfer(sender_id, pool.token_account_ids[out_idx],
                                             r.ret)>>]

\* Pool::swap.  The result is [ok, err, pool, amount_out, promises].
Pool_swap(pool, sender_id, token_in, amount_in, token_out, min_amount_out) ==
    LET in_idx == token_index(pool, token_in)
        out_idx == token_index(pool, token_out)
        fail(e) == [ok |-> FALSE, err |-> e, pool |-> pool, amount_out |-> 0,
                    promises |-> <<>>]
    IN IF in_idx = 0 \/ out_idx = 0 THEN fail("ERR_MISSING_TOKEN")
       ELSE LET r == get_return_idx(pool, in_idx, amount_in, out_idx)
            IN IF ~r.ok THEN fail(r.err)
               ELSE IF ~(r.ret >= min_amount_out) THEN fail("ERR_MIN_AMOUNT")
               ELSE [ok |-> TRUE, err |-> "",
                     pool |-> [pool EXCEPT !.amounts[in_idx] = @ + amount_in,
                                           !.amounts[out_idx] = @ - r.ret],
                     amount_out |-> r.ret,
                     promises |-> <<Transfer(sender_id, pool.token_account_ids[out_idx],
                                             r.ret)>>]


-----------------------------------------------------------------------------
(* multiswap: Contract (lib.rs) *)

\* The outcome of a call: whether it succeeded, and if so the contract state
\* it leaves, its return value and the promises it created.
Panic(e) ==
    [ok |-> FALSE, err |-> e, pools |-> pools, deposited_amounts |-> deposited_amounts,
     ret |-> 0, amount_out |-> 0, amounts_out |-> <<>>, promises |-> <<>>]
Done(ps, deps, ret, promises) ==
    [ok |-> TRUE, err |-> "", pools |-> ps, deposited_amounts |-> deps,
     ret |-> ret, amount_out |-> 0, amounts_out |-> <<>>, promises |-> promises]

\* self.pools.get(pool_id): ids count from 0, sequences from 1.
HasPool(ps, pool_id) == pool_id + 1 \in DOMAIN ps
PoolAt(ps, pool_id) == ps[pool_id + 1]

\* A faulty Contract::add_pool: the id is taken after the pool is pushed.
add_pool_id_after_push(tokens, fee, storage_paid) ==
    LET id == Len(pools)
        p == Pool_new(id, tokens, fee)
    IN IF ~p.ok THEN Panic(p.err)
       ELSE IF ~storage_paid THEN Panic("ERR_STORAGE_DEPOSIT")
       ELSE Done(Append(pools, p.pool), deposited_amounts, id + 1, <<>>)

\* Contract::add_pool; storage_paid says whether the attached deposit covers
\* the storage the new pool takes.
add_pool(tokens, fee, storage_paid) ==
    LET id == Len(pools)
        p == Pool_new(id, tokens, fee)
    IN IF ~p.ok THEN Panic(p.err)
       ELSE IF ~storage_paid THEN Panic("ERR_STORAGE_DEPOSIT")
       ELSE Done(Append(pools, p.pool), deposited_amounts, id, <<>>)

\* Contract::internal_register_account
internal_register_account(deps, account_id) == MapInsert(deps, account_id, EmptyMap)

\* Contract::internal_deposit.  The result is [ok, err, deposited_amounts].
internal_deposit(deps, sender_id, token_id, amount) ==
    IF sender_id \notin DOMAIN deps
    THEN [ok |-> FALSE, err |-> "ERR_NOT_REGISTERED", deposited_amounts |-> deps]
    ELSE LET amounts == deps[sender_id]
         IN IF ~(Cardinality(DOMAIN amounts) <= MAX_DEPOSIT_TOKENS)
            THEN [ok |-> FALSE, err |-> "ERR_TOO_MANY_TOKENS", deposited_amounts |-> deps]
            ELSE [ok |-> TRUE, err |-> "",
                  deposited_amounts |->
                      MapInsert(deps, sender_id, MapInsert(amounts, token_id, amount))]

\* The loop of Contract::add_liquidity: deposits.remove(token_id) for the
\* pool's tokens i..n in order.  st is [ok, deposits, amounts].
RECURSIVE take_deposits(_, _, _)
take_deposits(st, tokens, i) ==
    IF i > Len(tokens) THEN st
    ELSE IF tokens[i] \notin DOMAIN st.deposits
    THEN [st EXCEPT !.ok = FALSE]
    ELSE take_deposits([st EXCEPT !.deposits = MapRemove(@, tokens[i]),
                                  !.amounts = Append(@, st.deposits[tokens[i]])],
                       tokens, i + 1)

\* Contract::add_liquidity
add_liquidity(sender_id, pool_id) ==
    IF ~HasPool(pools, pool_id) THEN Panic("ERR_NO_POOL")
    ELSE IF sender_id \notin DOMAIN deposited_amounts THEN Panic("ERR_NO_DEPOSIT")
    ELSE LET pool == PoolAt(pools, pool_id)
             taken == take_deposits([ok |-> TRUE, deposits |-> deposited_amounts[sender_id],
                                     amounts |-> <<>>],
                                    pool.token_account_ids, 1)
         IN IF ~taken.ok THEN Panic("ERR_MISSING_TOKEN")
            ELSE LET r == Pool_add_liquidity(pool, sender_id, taken.amounts)
                 IN Done([pools EXCEPT ![pool_id + 1] = r.pool],
                         MapInsert(deposited_amounts, sender_id, taken.deposits),
                         0, <<>>)

\* The loop of Contract::remove_liquidity:
\* *deposits.entry(tokens[i]).or_default() += amounts[i]
RECURSIVE credit_amounts(_, _, _, _)
credit_amounts(deposits, tokens, amounts, i) ==
    IF i > Len(tokens) THEN deposits
    ELSE credit_amounts(MapInsert(deposits, tokens[i],
                                  MapGetOr(deposits, tokens[i], 0) + amounts[i]),
                        tokens, amounts, i + 1)

\* A faulty Contract::remove_liquidity: a call that fails on a later token
\* keeps the reserves and the payouts of the tokens before it.
remove_liquidity_keeps_paid_legs(sender_id, pool_id, shares, min_amounts) ==
    IF ~HasPool(pools, pool_id) THEN Panic("ERR_NO_POOL")
    ELSE LET r == Pool_remove_liquidity(PoolAt(pools, pool_id), sender_id, shares,
                                        min_amounts)
         IN IF ~r.ok
            THEN [Panic(r.err) EXCEPT !.pools = [pools EXCEPT ![pool_id + 1] = r.pool],
                                      !.promises = r.promises]
            ELSE IF sender_id \notin DOMAIN deposited_amounts THEN Panic("ERR_NO_DEPOSIT")
            ELSE [Done([pools EXCEPT ![pool_id + 1] = r.pool],
                       MapInsert(deposited_amounts, sender_id,
                                 credit_amounts(deposited_amounts[sender_id],
                                                r.pool.token_account_ids, r.amounts, 1)),
                       0, r.promises)
                  EXCEPT !.amounts_out = r.amounts]

\* Contract::remove_liquidity.  The call site takes the amounts paid out per
\* token from Pool::remove_liquidity.
remove_liquidity(sender_id, pool_id, shares, min_amounts) ==
    IF ~HasPool(pools, pool_id) THEN Panic("ERR_NO_POOL")
    ELSE LET r == Pool_remove_liquidity(PoolAt(pools, pool_id), sender_id, shares,
                                        min_amounts)
         IN IF ~r.ok THEN Panic(r.err)
            ELSE IF sender_id \notin DOMAIN deposited_amounts THEN Panic("ERR_NO_DEPOSIT")
            ELSE [Done([pools EXCEPT ![pool_id + 1] = r.pool],
                       MapInsert(deposited_amounts, sender_id,
                                 credit_amounts(deposited_amounts[sender_id],
                                                r.pool.token_account_ids, r.amounts, 1)),
                       0, r.promises)
                  EXCEPT !.amounts_out = r.amounts]

\* Contract::withdraw.  deposits is a copy of the caller's record: the
\* function changes the copy and never writes it back.
withdraw(sender_id, token_id, amount) ==
    IF sender_id \notin DOMAIN deposited_amounts THEN Panic("ERR_UNWRAP_NONE")
    ELSE LET deposits == deposited_amounts[sender_id]
         IN IF token_id \notin DOMAIN deposits THEN Panic("ERR_NO_TOKEN")
            ELSE IF ~(deposits[token_id] >= amount) THEN Panic("ERR_NOT_ENOUGH")
            ELSE Done(pools, deposited_amounts, 0,
                      <<Transfer(sender_id, token_id, amount)>>)

\* A faulty Contract::get_return: the quote is made by a swap that is stored.
get_return_stores_swap(pool_id, token_in, amount_in, token_out) ==
    IF ~HasPool(pools, pool_id) THEN Panic("ERR_NO_POOL")
    ELSE LET r == Pool_swap(PoolAt(pools, pool_id), "", token_in, amount_in, token_out, 0)
         IN IF ~r.ok THEN Panic(r.err)
            ELSE Done([pools EXCEPT ![pool_id + 1] = r.pool], deposited_amounts,
                      r.amount_out, <<>>)

\* Contract::get_return, a view call
get_return(pool_id, token_in, amount_in, token_out) ==
    IF ~HasPool(pools, pool_id) THEN Panic("ERR_NO_POOL")
    ELSE LET r == Pool_get_return(PoolAt(pools, pool_id), token_in, amount_in, token_out)
         IN IF ~r.ok THEN Panic(r.err)
            ELSE Done(pools, deposited_amounts, r.ret, <<>>)

\* A faulty ar_register: an account that is already registered is registered
\* again, with a new empty record.
ar_register_resets_record(account_id, attached) ==
    IF attached < 1 THEN Panic("ERR_REGISTRATION_FEE")
    ELSE Done(pools, internal_register_account(deposited_amounts, account_id),
              account_id \notin DOMAIN deposited_amounts,
              IF attached - 1 > 0 THEN <<Transfer(account_id, NEAR, attached - 1)>>
              ELSE <<>>)

\* AccountRegistrar::ar_register; the attached deposit is counted in units of
\* the registration fee (ar_registration_fee is 1 unit).
ar_register(account_id, attached) ==
    IF account_id \in DOMAIN deposited_amounts
    THEN Done(pools, deposited_amounts, FALSE,
              IF attached > 0 THEN <<Transfer(account_id, NEAR, attached)>> ELSE <<>>)
    ELSE IF attached < 1 THEN Panic("ERR_REGISTRATION_FEE")
    ELSE Done(pools, internal_register_account(deposited_amounts, account_id), TRUE,
              IF attached - 1 > 0 THEN <<Transfer(account_id, NEAR, attached - 1)>>
              ELSE <<>>)

\* FungibleTokenReceiver::ft_on_transfer of lib.rs; token_in is the calling
\* token contract.  msg is [kind |-> "deposit"], [kind |-> "swap", pool_id,
\* token_out, min_amount_out] for "swap:pool_id:token_out:min_amount_out", or
\* [kind |-> "other"] for a message of another shape.
ft_on_transfer(token_in, sender_id, amount, msg) ==
    IF msg.kind = "deposit"
    THEN LET d == internal_deposit(deposited_amounts, sender_id, token_in, amount)
         IN IF ~d.ok THEN Panic(d.err)
            ELSE Done(pools, d.deposited_amounts, amount, <<>>)
    ELSE IF msg.kind # "swap" THEN Panic("ERR_ASSERT_EQ")
    ELSE IF ~HasPool(pools, msg.pool_id) THEN Panic("ERR_NO_POOL")
    ELSE LET r == Pool_swap(PoolAt(pools, msg.pool_id), sender_id, token_in, amount,
                            msg.token_out, msg.min_amount_out)
         IN IF ~r.ok THEN Panic(r.err)
            ELSE [Done([pools EXCEPT ![msg.pool_id + 1] = r.pool], deposited_amounts,
                       amount, r.promises)
                  EXCEPT !.amount_out = r.amount_out]

-----------------------------------------------------------------------------
(* multiswap: the deposit ledger operations and the multi-action swap.     *)
(* The revision of lib.rs under src/ has no multi-action swap; its         *)
(* integration test (tests/test_swap.rs) calls one.  These definitions     *)
(* follow the specification's sections 4.4 and 4.5.                        *)

\* DepositLedger.debit.  The result is [ok, err, deposited_amounts].
ledger_debit(deps, account_id, token_id, amount) ==
    IF account_id \notin DOMAIN deps
    THEN [ok |-> FALSE, err |-> "NotFound", deposited_amounts |-> deps]
    ELSE LET balance == MapGetOr(deps[account_id], token_id, 0)
         IN IF amount > balance
            THEN [ok |-> FALSE, err |-> "InsufficientBalance", deposited_amounts |-> deps]
            ELSE [ok |-> TRUE, err |-> "",
                  deposited_amounts |->
                      MapInsert(deps, account_id,
                                IF balance = amount
                                THEN MapRemove(deps[account_id], token_id)
                                ELSE MapInsert(deps[account_id], token_id,
                                               balance - amount))]

\* DepositLedger.credit: adds to the recorded balance, created if absent; a
\* zero balance is not stored.
ledger_credit(deps, account_id, token_id, amount) ==
    LET balance == MapGetOr(deps[account_id], token_id, 0) + amount
    IN IF balance = 0 THEN deps
       ELSE MapInsert(deps, account_id, MapInsert(deps[account_id], token_id, balance))

\* SwapRouter.execute over actions i..n.  st is [ok, err, pools,
\* deposited_amounts, amounts_out], the state of the call so far.  An action
\* is [pool_id, token_in, amount_in, token_out, min_amount_out]; amount_in
\* -1 stands for None, the caller's whole ledger balance of token_in.
RECURSIVE execute_actions(_, _, _, _)
execute_actions(st, sender_id, actions, i) ==
    IF i > Len(actions) THEN st
    ELSE LET a == actions[i]
             amount_in ==
                 IF a.amount_in # -1 THEN a.amount_in
                 ELSE IF sender_id \in DOMAIN st.deposited_amounts
                 THEN MapGetOr(st.deposited_amounts[sender_id], a.token_in, 0)
                 ELSE 0
             d == ledger_debit(st.deposited_amounts, sender_id, a.token_in, amount_in)
         IN IF ~d.ok THEN [st EXCEPT !.ok = FALSE, !.err = d.err]
            ELSE IF ~HasPool(st.pools, a.pool_id)
            THEN [st EXCEPT !.ok = FALSE, !.err = "NotFound"]
            ELSE LET r == Pool_swap(PoolAt(st.pools, a.pool_id), sender_id, a.token_in,
                                    amount_in, a.token_out, a.min_amount_out)
                 IN IF ~r.ok
                    THEN [st EXCEPT !.ok = FALSE,
                                    !.err = IF r.err = "ERR_MIN_AMOUNT"
                                            THEN "SlippageExceeded"
                                            ELSE "InvariantViolation"]
                    ELSE execute_actions(
                            [st EXCEPT
                               !.pools[a.pool_id + 1] = r.pool,
                               !.deposited_amounts =
                                   ledger_credit(d.deposited_amounts, sender_id,
                                                 a.token_out, r.amount_out),
                               !.amounts_out = Append(@, r.amount_out)],
                            sender_id, actions, i + 1)

\* A faulty multi-action swap: a failing call keeps what its earlier actions
\* did.
swap_keeps_earlier_actions(sender_id, actions) ==
    LET st == execute_actions([ok |-> TRUE, err |-> "", pools |-> pools,
                               deposited_amounts |-> deposited_amounts,
                               amounts_out |-> <<>>],
                              sender_id, actions, 1)
    IN IF ~st.ok
       THEN [Panic(st.err) EXCEPT !.pools = st.pools,
                                  !.deposited_amounts = st.deposited_amounts]
       ELSE [Done(st.pools, st.deposited_amounts, 0, <<>>)
             EXCEPT !.amounts_out = st.amounts_out]

\* The multi-action swap (SwapRouter.execute): all actions take effect, or
\* none does.
swap(sender_id, actions) ==
    LET st == execute_actions([ok |-> TRUE, err |-> "", pools |-> pools,
                               deposited_amounts |-> deposited_amounts,
                               amounts_out |-> <<>>],
                              sender_id, actions, 1)
    IN IF ~st.ok THEN Panic(st.err)
       ELSE [Done(st.pools, st.deposited_amounts, 0, <<>>)
             EXCEPT !.amounts_out = st.amounts_out]

-----------------------------------------------------------------------------
(* uniswap: Contract (uniswap/src/lib.rs) *)

\* The account of the token the exchange trades against NEAR.
TOKEN_ACCOUNT == "token"

\* Contract::new
Uniswap_new(fee) ==
    [fee |-> fee, near_balances |-> EmptyMap, shares |-> EmptyMap,
     shares_total_supply |-> 0, near_amount |-> 0, token_amount |-> 0]

UPanic(e) == [ok |-> FALSE, err |-> e, uniswap |-> uniswap, ret |-> 0, promises |-> <<>>]
UDone(u, ret, promises) ==
    [ok |-> TRUE, err |-> "", uniswap |-> u, ret |-> ret, promises |-> promises]

\* Contract::add_liquidity
Uniswap_add_liquidity(caller, attached_deposit) ==
    UDone([uniswap EXCEPT !.near_balances = add_to_collection(@, caller, attached_deposit)],
          0, <<>>)

\* A faulty Contract::remove_liquidity of the exchange: the token amount is
\* computed from the NEAR reserve.
Uniswap_remove_liquidity_token_by_near(caller, shares_amount, min_near, min_token) ==
    IF ~(shares_amount > 0 /\ uniswap.shares_total_supply > 0) THEN UPanic("ERR_ASSERT")
    ELSE LET near_amount ==
                 (shares_amount * uniswap.near_amount) \div uniswap.shares_total_supply
             token_amount ==
                 (shares_amount * uniswap.near_amount) \div uniswap.shares_total_supply
             prev_amount == MapGetOr(uniswap.shares, caller, 0)
         IN IF ~(near_amount >= min_near /\ token_amount >= min_token)
            THEN UPanic("ERR_ASSERT")
            ELSE IF ~(prev_amount >= shares_amount) THEN UPanic("ERR_NOT_ENOUGH_SHARES")
            ELSE UDone([uniswap EXCEPT
                          !.shares = IF prev_amount = shares_amount
                                     THEN MapRemove(@, caller)
                                     ELSE MapInsert(@, caller, prev_amount - shares_amount),
                          !.shares_total_supply = @ - shares_amount,
                          !.near_amount = @ - near_amount,
                          !.token_amount = @ - token_amount],
                       0,
                       <<Transfer(caller, NEAR, near_amount),
                         Transfer(caller, TOKEN_ACCOUNT, token_amount)>>)

\* A faulty Contract::remove_liquidity of the exchange: the total supply is
\* not decreased.
Uniswap_remove_liquidity_keeps_supply(caller, shares_amount, min_near, min_token) ==
    IF ~(shares_amount > 0 /\ uniswap.shares_total_supply > 0) THEN UPanic("ERR_ASSERT")
    ELSE LET near_amount ==
                 (shares_amount * uniswap.near_amount) \div uniswap.shares_total_supply
             token_amount ==
                 (shares_amount * uniswap.token_amount) \div uniswap.shares_total_supply
             prev_amount == MapGetOr(uniswap.shares, caller, 0)
         IN IF ~(near_amount >= min_near /\ token_amount >= min_token)
            THEN UPanic("ERR_ASSERT")
            ELSE IF ~(prev_amount >= shares_amount) THEN UPanic("ERR_NOT_ENOUGH_SHARES")
            ELSE UDone([uniswap EXCEPT
                          !.shares = IF prev_amount = shares_amount
                                     THEN MapRemove(@, caller)
                                     ELSE MapInsert(@, caller, prev_amount - shares_amount),
                          !.near_amount = @ - near_amount,
                          !.token_amount = @ - token_amount],
                       0,
                       <<Transfer(caller, NEAR, near_amount),
                         Transfer(caller, TOKEN_ACCOUNT, token_amount)>>)

\* Contract::remove_liquidity
Uniswap_remove_liquidity(caller, shares_amount, min_near_amount, min_token_amount) ==
    IF ~(shares_amount > 0 /\ uniswap.shares_total_supply > 0) THEN UPanic("ERR_ASSERT")
    ELSE LET near_amount ==
                 (shares_amount * uniswap.near_amount) \div uniswap.shares_total_supply
             token_amount ==
                 (shares_amount * uniswap.token_amount) \div uniswap.shares_total_supply
             prev_amount == MapGetOr(uniswap.shares, caller, 0)
         IN IF ~(near_amount >= min_near_amount /\ token_amount >= min_token_amount)
            THEN UPanic("ERR_ASSERT")
            ELSE IF ~(prev_amount >= shares_amount) THEN UPanic("ERR_NOT_ENOUGH_SHARES")
            ELSE UDone([uniswap EXCEPT
                          !.shares = IF prev_amount = shares_amount
                                     THEN MapRemove(@, caller)
                                     ELSE MapInsert(@, caller, prev_amount - shares_amount),
                          !.shares_total_supply = @ - shares_amount,
                          !.near_amount = @ - near_amount,
                          !.token_amount = @ - token_amount],
                       0,
                       <<Transfer(caller, NEAR, near_amount),
                         Transfer(caller, TOKEN_ACCOUNT, token_amount)>>)

\* Contract::get_input_price.  The result is [ok, ret].
get_input_price(fee, input_amount, input_reserve, output_reserve) ==
    IF ~(input_reserve > 0 /\ output_reserve > 0) THEN [ok |-> FALSE, ret |-> 0]
    ELSE LET input_amount_with_fee == input_amount * (FEE_DIVISOR - fee)
         IN [ok |-> TRUE,
             ret |-> (input_amount_with_fee * output_reserve)
                        \div (input_reserve * FEE_DIVISOR + input_amount_with_fee)]

\* Contract::get_output_price.  The result is [ok, ret].
get_output_price(fee, output_amount, input_reserve, output_reserve) ==
    IF ~(input_reserve > 0 /\ output_reserve > output_amount) THEN [ok |-> FALSE, ret |-> 0]
    ELSE [ok |-> TRUE,
          ret |-> (input_reserve * output_amount * FEE_DIVISOR)
                     \div ((output_reserve - output_amount) * (FEE_DIVISOR - fee))]

\* A faulty Contract::swap_near_to_token: the NEAR paid is also counted as
\* shares of the caller.
swap_near_to_token_credits_shares(caller, payed_amount, min_amount) ==
    LET p == get_input_price(uniswap.fee, payed_amount, uniswap.near_amount,
                             uniswap.token_amount)
        tokens_bought == p.ret
    IN IF ~p.ok THEN UPanic("ERR_NO_LIQUIDITY")
       ELSE IF ~(tokens_bought >= min_amount) THEN UPanic("ERR_MIN_AMOUNT")
       ELSE UDone([uniswap EXCEPT !.near_amount = @ + payed_amount,
                                  !.token_amount = @ - tokens_bought,
                                  !.shares = add_to_collection(@, caller, payed_amount)],
                  tokens_bought,
                  <<Transfer(caller, TOKEN_ACCOUNT, tokens_bought)>>)

\* Contract::swap_near_to_token
swap_near_to_token(caller, payed_amount, min_amount) ==
    LET p == get_input_price(uniswap.fee, payed_amount, uniswap.near_amount,
                             uniswap.token_amount)
        tokens_bought == p.ret
    IN IF ~p.ok THEN UPanic("ERR_NO_LIQUIDITY")
       ELSE IF ~(tokens_bought >= min_amount) THEN UPanic("ERR_MIN_AMOUNT")
       ELSE UDone([uniswap EXCEPT !.near_amount = @ + payed_amount,
                                  !.token_amount = @ - tokens_bought],
                  tokens_bought,
                  <<Transfer(caller, TOKEN_ACCOUNT, tokens_bought)>>)

\* Contract::swap_token_to_near.  A subtraction below zero is an arithmetic
\* panic where the build checks overflow; where it does not, the reserve
\* wraps to a value near 2^128, which is beyond UniswapMaxBalance, so the
\* call is outside the model either way.
swap_token_to_near(sender_id, token_amount, min_near_amount) ==
    LET p == get_input_price(uniswap.fee, token_amount, uniswap.token_amount,
                             uniswap.near_amount)
        near_bought == p.ret
    IN IF ~p.ok THEN UPanic("ERR_NO_LIQUIDITY")
       ELSE IF ~(near_bought >= min_near_amount) THEN UPanic("ERR_MIN_AMOUNT")
       ELSE IF uniswap.token_amount - token_amount < 0 THEN UPanic("ERR_OVERFLOW")
       ELSE UDone([uniswap EXCEPT !.near_amount = @ - near_bought,
                                  !.token_amount = @ - token_amount],
                  0,
                  <<Transfer(sender_id, NEAR, near_bought)>>)

\* A faulty Contract::finish_add_liquidity: the pending NEAR of the sender is
\* read and left in near_balances.
finish_add_liquidity_keeps_pending(sender_id, amount) ==
    IF sender_id \notin DOMAIN uniswap.near_balances THEN UPanic("ERR_NOT_ADD_LIQUIDITY")
    ELSE LET near_amount == uniswap.near_balances[sender_id]
         IN UDone([uniswap EXCEPT
                      !.shares_total_supply = near_amount,
                      !.near_amount = near_amount,
                      !.token_amount = amount,
                      !.shares = add_to_collection(@, sender_id, near_amount)],
                  amount, <<>>)

\* Contract::finish_add_liquidity
finish_add_liquidity(sender_id, amount) ==
    IF sender_id \notin DOMAIN uniswap.near_balances THEN UPanic("ERR_NOT_ADD_LIQUIDITY")
    ELSE LET near_amount == uniswap.near_balances[sender_id]
             u == [uniswap EXCEPT !.near_balances = MapRemove(@, sender_id)]
         IN IF uniswap.shares_total_supply > 0
            THEN IF uniswap.near_amount = 0 THEN UPanic("ERR_DIVISION_BY_ZERO")
                 ELSE LET expected_token_amount ==
                              (near_amount * uniswap.token_amount) \div uniswap.near_amount
                          liquidity_minted ==
                              (near_amount * uniswap.shares_total_supply)
                                  \div uniswap.near_amount
                      IN IF ~(expected_token_amount <= amount)
                         THEN UPanic("ERR_NOT_ENOUGH_TOKEN")
                         ELSE UDone([u EXCEPT
                                       !.shares = add_to_collection(@, sender_id,
                                                                    liquidity_minted),
                                       !.shares_total_supply = @ + liquidity_minted,
                                       !.near_amount = @ + near_amount,
                                       !.token_amount = @ + expected_token_amount],
                                    expected_token_amount, <<>>)
            ELSE UDone([u EXCEPT
                          !.shares_total_supply = near_amount,
                          !.near_amount = near_amount,
                          !.token_amount = amount,
                          !.shares = add_to_collection(@, sender_id, near_amount)],
                       amount, <<>>)

\* FungibleTokenReceiver::ft_on_transfer of the exchange; predecessor is the
\* calling account.  msg is [kind |-> "liquidity"], [kind |-> "min",
\* min_near_amount] for a message that parses as a U128, or [kind |-> "other"].
Uniswap_ft_on_transfer(predecessor, sender_id, amount, msg) ==
    IF predecessor # TOKEN_ACCOUNT THEN UPanic("ERR_WRONG_TOKEN")
    ELSE IF msg.kind = "liquidity" THEN finish_add_liquidity(sender_id, amount)
    ELSE IF msg.kind # "min" THEN UPanic("ERR_MSG")
    ELSE LET r == swap_token_to_near(sender_id, amount, msg.min_near_amount)
         IN IF ~r.ok THEN r ELSE [r EXCEPT !.ret = amount]

-----------------------------------------------------------------------------
(* balancer-pool: BPool (src/balancer-pool/src/lib.rs, bconst.rs).          *)
(* BONE is 10^24 in the source; the model counts weights, fees and pool     *)
(* shares with a BONE of 10^6, which keeps MIN_FEE, MAX_FEE, MIN_WEIGHT and *)
(* MAX_WEIGHT distinct, and takes MIN_BALANCE (BONE / 10^12) as one unit.   *)
(* The pool share token is a Token of the near_lib crate, which is not part *)
(* of the sources: it is modelled by its total supply and its balances,     *)
(* and a transfer or burn panics when the balance does not cover it.        *)

\* bconst.rs:5
BONE == 1000000
\* bconst.rs:7
MIN_BOUND_TOKENS == 2
\* bconst.rs:8
MAX_BOUND_TOKENS == 8
\* bconst.rs:10-12
MIN_FEE == BONE \div 1000000
MAX_FEE == BONE \div 10
EXIT_FEE == 0
\* bconst.rs:14-15
MIN_WEIGHT == BONE
MAX_WEIGHT == BONE * 50
\* bconst.rs:17
MIN_BALANCE == 1
\* bconst.rs:19
INIT_POOL_SUPPLY == BONE * 100

\* env::current_account_id() of the pool
POOL_ACCOUNT == "pool"

\* BPool::new; predecessor is the calling account.
BPool_new(predecessor) ==
    [controller |-> predecessor, factory |-> predecessor, swap_fee |-> MIN_FEE,
     public_swap |-> FALSE, finalized |-> FALSE, records |-> EmptyMap, tokens |-> <<>>,
     total_weight |-> 0, token |-> [total_supply |-> 0, balances |-> EmptyMap]]

\* The outcome of a BPool call: whether it succeeded, and if so the pool it
\* leaves, its return value and the promises it created.
BPanic(bp, e) == [ok |-> FALSE, err |-> e, bpool |-> bp, ret |-> 0, promises |-> <<>>]
BDone(bp, ret, promises) ==
    [ok |-> TRUE, err |-> "", bpool |-> bp, ret |-> ret, promises |-> promises]

\* BPool::pull_underlying: the promise of a transfer_from of token to the pool
pull_underlying(token, from, amount) ==
    [from |-> from, receiver_id |-> POOL_ACCOUNT, token |-> token, amount |-> amount]

\* BPool::push_underlying: the promise of a transfer of token from the pool
push_underlying(token, to, amount) ==
    [from |-> POOL_ACCOUNT, receiver_id |-> to, token |-> token, amount |-> amount]

\* BPool::mint_pool_share: Token::mint for the pool's own account.  The
\* result of an operation on the share token t is [ok, token].
mint_pool_share(t, amount) ==
    [ok |-> TRUE,
     token |-> [total_supply |-> t.total_supply + amount,
                balances |-> add_to_collection(t.balances, POOL_ACCOUNT, amount)]]

\* BPool::burn_pool_share: Token::burn for the pool's own account
burn_pool_share(t, amount) ==
    IF MapGetOr(t.balances, POOL_ACCOUNT, 0) < amount THEN [ok |-> FALSE, token |-> t]
    ELSE [ok |-> TRUE,
          token |-> [total_supply |-> t.total_supply - amount,
                     balances |-> MapInsert(t.balances, POOL_ACCOUNT,
                                            t.balances[POOL_ACCOUNT] - amount)]]

\* Token::transfer_from(owner_id, new_owner_id, amount) of the share token
share_transfer_from(t, owner_id, new_owner_id, amount) ==
    IF MapGetOr(t.balances, owner_id, 0) < amount THEN [ok |-> FALSE, token |-> t]
    ELSE [ok |-> TRUE,
          token |-> [t EXCEPT !.balances =
                        add_to_collection(MapInsert(@, owner_id, @[owner_id] - amount),
                                          new_owner_id, amount)]]

\* BPool::pull_pool_share
pull_pool_share(t, from, amount) == share_transfer_from(t, from, POOL_ACCOUNT, amount)

\* BPool::push_pool_share
push_pool_share(t, to, amount) == share_transfer_from(t, POOL_ACCOUNT, to, amount)

\* BPool::isBound
isBound(bp, token) ==
    IF token \in DOMAIN bp.records THEN bp.records[token].bound ELSE FALSE

\* A faulty BPool::getNormalizedWeight: the quotient is rounded up.
getNormalizedWeight_rounds_up(bp, token) ==
    IF ~isBound(bp, token) THEN BPanic(bp, "ERR_NOT_BOUND")
    ELSE IF bp.total_weight = 0 THEN BPanic(bp, "ERR_DIVISION_BY_ZERO")
    ELSE BDone(bp, (bp.records[token].denorm + bp.total_weight - 1) \div bp.total_weight,
               <<>>)

\* BPool::getNormalizedWeight
getNormalizedWeight(bp, token) ==
    IF ~isBound(bp, token) THEN BPanic(bp, "ERR_NOT_BOUND")
    ELSE IF bp.total_weight = 0 THEN BPanic(bp, "ERR_DIVISION_BY_ZERO")
    ELSE BDone(bp, bp.records[token].denorm \div bp.total_weight, <<>>)

\* BPool::setSwapFee; predecessor is the calling account.
setSwapFee(bp, predecessor, swap_fee) ==
    IF bp.finalized THEN BPanic(bp, "ERR_IS_FINALIZED")
    ELSE IF predecessor # bp.controller THEN BPanic(bp, "ERR_NOT_CONTROLLER")
    ELSE IF ~(swap_fee >= MIN_FEE) THEN BPanic(bp, "ERR_MIN_FEE")
    ELSE IF ~(swap_fee <= MAX_FEE) THEN BPanic(bp, "ERR_MIN_FEE")
    ELSE BDone([bp EXCEPT !.swap_fee = swap_fee], 0, <<>>)

\* BPool::setController
setController(bp, predecessor, controller) ==
    IF predecessor # bp.controller THEN BPanic(bp, "ERR_NOT_CONTROLLER")
    ELSE BDone([bp EXCEPT !.controller = controller], 0, <<>>)

\* A faulty BPool::setPublicSwap: a finalized pool is not refused.
setPublicSwap_when_finalized(bp, predecessor, public) ==
    IF predecessor # bp.controller THEN BPanic(bp, "ERR_NOT_CONTROLLER")
    ELSE BDone([bp EXCEPT !.public_swap = public], 0, <<>>)

\* BPool::setPublicSwap
setPublicSwap(bp, predecessor, public) ==
    IF bp.finalized THEN BPanic(bp, "ERR_IS_FINALIZED")
    ELSE IF predecessor # bp.controller THEN BPanic(bp, "ERR_NOT_CONTROLLER")
    ELSE BDone([bp EXCEPT !.public_swap = public], 0, <<>>)

\* BPool::finalize
finalize(bp, predecessor) ==
    IF predecessor # bp.controller THEN BPanic(bp, "ERR_NOT_CONTROLLER")
    ELSE IF bp.finalized THEN BPanic(bp, "ERR_IS_FINALIZED")
    ELSE IF ~(Len(bp.tokens) >= MIN_BOUND_TOKENS) THEN BPanic(bp, "ERR_MIN_TOKENS")
    ELSE LET minted == mint_pool_share(bp.token, INIT_POOL_SUPPLY)
             pushed == push_pool_share(minted.token, predecessor, INIT_POOL_SUPPLY)
         IN IF ~pushed.ok THEN BPanic(bp, "ERR_TOKEN")
            ELSE BDone([bp EXCEPT !.finalized = TRUE, !.public_swap = TRUE,
                                  !.token = pushed.token],
                       0, <<>>)

\* BPool::rebind
rebind(bp, predecessor, token, balance, denorm) ==
    IF predecessor # bp.controller THEN BPanic(bp, "ERR_NOT_CONTROLLER")
    ELSE IF ~isBound(bp, token) THEN BPanic(bp, "ERR_NOT_BOUND")
    ELSE IF bp.finalized THEN BPanic(bp, "ERR_IS_FINALIZED")
    ELSE IF ~(denorm >= MIN_WEIGHT) THEN BPanic(bp, "ERR_MIN_WEIGHT")
    ELSE IF ~(denorm <= MAX_WEIGHT) THEN BPanic(bp, "ERR_MAX_WEIGHT")
    ELSE IF ~(balance >= MIN_BALANCE) THEN BPanic(bp, "ERR_MIN_BALANCE")
    ELSE LET record == bp.records[token]
             old_weight == record.denorm
             old_balance == record.balance
             total_weight == IF denorm > old_weight
                             THEN bp.total_weight + (denorm - old_weight)
                             ELSE bp.total_weight - (old_weight - denorm)
             token_balance_withdrawn == old_balance - balance
             token_exit_fee == token_balance_withdrawn * EXIT_FEE
             promises == IF balance > old_balance
                         THEN <<pull_underlying(token, predecessor, balance - old_balance)>>
                         ELSE <<push_underlying(token, predecessor,
                                                token_balance_withdrawn - token_exit_fee),
                                push_underlying(token, bp.factory, token_exit_fee)>>
         IN BDone([bp EXCEPT !.total_weight = total_weight,
                             !.records = MapInsert(@, token,
                                            [record EXCEPT !.denorm = denorm,
                                                           !.balance = balance])],
                  0, promises)

\* BPool::bind
bind(bp, predecessor, token, balance, denorm) ==
    IF predecessor # bp.controller THEN BPanic(bp, "ERR_NOT_CONTROLLER")
    ELSE IF isBound(bp, token) THEN BPanic(bp, "ERR_IS_BOUND")
    ELSE IF bp.finalized THEN BPanic(bp, "ERR_IS_FINALIZED")
    ELSE IF ~(Len(bp.tokens) < MAX_BOUND_TOKENS) THEN BPanic(bp, "ERR_MAX_TOKENS")
    ELSE LET inserted == [bp EXCEPT
                             !.records = MapInsert(@, token,
                                            [bound |-> TRUE, index |-> Len(bp.tokens),
                                             denorm |-> 0, balance |-> 0]),
                             !.tokens = Append(@, token)]
             r == rebind(inserted, predecessor, token, balance, denorm)
         IN IF ~r.ok THEN BPanic(bp, r.err) ELSE r

\* BPool::unbind, which has an empty body
unbind(bp, token) == BDone(bp, 0, <<>>)

\* BPool::gulp, which has an empty body
gulp(bp, token) == BDone(bp, 0, <<>>)

\* The first token of joinPool's or exitPool's loop whose amount fails a
\* check, or 0 when none does: the amount ratio * balance is 0, or the limit
\* of the token is missing, or the limit is passed.
first_failing_token(bp, ratio, limits, join) ==
    LET amount(i) == ratio * bp.records[bp.tokens[i]].balance
        bad == {i \in DOMAIN bp.tokens :
                   \/ amount(i) = 0
                   \/ i > Len(limits)
                   \/ IF join THEN ~(amount(i) <= limits[i]) ELSE ~(amount(i) >= limits[i])}
    IN IF bad = {} THEN 0 ELSE CHOOSE i \in bad : \A j \in bad : i <= j

\* BPool::joinPool.  The loop changes a copy of each record and never saves
\* it, so the call leaves records as it is.
joinPool(bp, predecessor, poolAmountOut, maxAmountsIn) ==
    IF ~bp.finalized THEN BPanic(bp, "ERR_NOT_FINALIZED")
    ELSE IF bp.token.total_supply = 0 THEN BPanic(bp, "ERR_DIVISION_BY_ZERO")
    ELSE LET pool_total == bp.token.total_supply
             ratio == poolAmountOut \div pool_total
             i == first_failing_token(bp, ratio, maxAmountsIn, TRUE)
             minted == mint_pool_share(bp.token, poolAmountOut)
             pushed == push_pool_share(minted.token, predecessor, poolAmountOut)
         IN IF ratio = 0 THEN BPanic(bp, "ERR_MAX_APPROX")
            ELSE IF i # 0
            THEN BPanic(bp, IF ratio * bp.records[bp.tokens[i]].balance = 0
                            THEN "ERR_MATH_APPROX"
                            ELSE IF i > Len(maxAmountsIn) THEN "ERR_INDEX"
                            ELSE "ERR_LIMIT_IN")
            ELSE IF ~pushed.ok THEN BPanic(bp, "ERR_TOKEN")
            ELSE BDone([bp EXCEPT !.token = pushed.token], 0,
                       [k \in DOMAIN bp.tokens |->
                           pull_underlying(bp.tokens[k], predecessor,
                                           ratio * bp.records[bp.tokens[k]].balance)])

\* BPool::exitPool.  As in joinPool the records are not saved.
exitPool(bp, predecessor, poolAmountIn, minAmountsOut) ==
    IF ~bp.finalized THEN BPanic(bp, "ERR_NOT_FINALIZED")
    ELSE IF bp.token.total_supply = 0 THEN BPanic(bp, "ERR_DIVISION_BY_ZERO")
    ELSE LET pool_total == bp.token.total_supply
             exit_fee == poolAmountIn * EXIT_FEE
             p_ai_after_exit_fee == poolAmountIn - exit_fee
             ratio == p_ai_after_exit_fee \div pool_total
             pulled == pull_pool_share(bp.token, predecessor, poolAmountIn)
             pushed == push_pool_share(pulled.token, bp.factory, exit_fee)
             burned == burn_pool_share(pushed.token, p_ai_after_exit_fee)
             i == first_failing_token(bp, ratio, minAmountsOut, FALSE)
         IN IF ratio = 0 THEN BPanic(bp, "ERR_MATH_APPROX")
            ELSE IF ~(pulled.ok /\ pushed.ok /\ burned.ok) THEN BPanic(bp, "ERR_TOKEN")
            ELSE IF i # 0
            THEN BPanic(bp, IF ratio * bp.records[bp.tokens[i]].balance = 0
                            THEN "ERR_MATH_APPROX"
                            ELSE IF i > Len(minAmountsOut) THEN "ERR_INDEX"
                            ELSE "ERR_LIMIT_OUT")
            ELSE BDone([bp EXCEPT !.token = burned.token], 0,
                       [k \in DOMAIN bp.tokens |->
                           push_underlying(bp.tokens[k], predecessor,
                                           ratio * bp.records[bp.tokens[k]].balance)])

-----------------------------------------------------------------------------
(* The record of a call *)

NoCall ==
    [op |-> "none", ok |-> TRUE, err |-> "", ret |-> 0, amount_out |-> 0,
     amounts_out |-> <<>>, promises |-> <<>>,
     caller |-> "", sender_id |-> "", token_in |-> "", amount |-> 0, msg |-> "",
     pool_id |-> 0, token_out |-> "", min_amount_out |-> 0, shares |-> 0,
     min_amounts |-> <<>>, tokens |-> <<>>, fee |-> 0, actions |-> <<>>,
     available_amount |-> 0, denorm |-> 0, public |-> FALSE]

\* The record of a failed call: the operation and the panic message.
Failed(op, err) == [NoCall EXCEPT !.op = op, !.ok = FALSE, !.err = err]

\* Every balance of the multiswap state is within the model's bound.
InBounds(ps, deps) ==
    /\ \A i \in DOMAIN ps :
          /\ \A j \in DOMAIN ps[i].amounts : ps[i].amounts[j] <= MaxBalance
          /\ ps[i].shares_total_supply <= MaxBalance
    /\ \A a \in DOMAIN deps : \A t \in DOMAIN deps[a] : deps[a][t] <= MaxBalance

\* Every reserve of a Pool driven directly is within the model's bound.
PoolInBounds(p) ==
    /\ \A j \in DOMAIN p.amounts : p.amounts[j] <= PoolMaxBalance
    /\ p.shares_total_supply <= PoolMaxBalance

\* Every balance of the uniswap state is within the model's bounds.
UniswapInBounds(u) ==
    /\ u.near_amount <= UniswapMaxBalance
    /\ u.token_amount <= UniswapMaxBalance
    /\ u.shares_total_supply <= UniswapMaxBalance
    /\ \A a \in DOMAIN u.near_balances : u.near_balances[a] <= UniswapMaxPending

\* The end of a multiswap call with outcome r.
Return(call, r) ==
    /\ InBounds(r.pools, r.deposited_amounts)
    /\ pools' = r.pools
    /\ deposited_amounts' = r.deposited_amounts
    /\ last' = IF r.ok
               THEN [call EXCEPT !.ret = r.ret, !.amount_out = r.amount_out,
                                 !.amounts_out = r.amounts_out,
                                 !.promises = r.promises]
               ELSE Failed(call.op, r.err)
    /\ UNCHANGED <<contract, uniswap, bpool>>

\* The end of a call of a Pool method with outcome r = [ok, err, pool, ...].
PoolReturn(call, r) ==
    /\ PoolInBounds(r.pool)
    /\ pools' = IF r.ok THEN <<r.pool>> ELSE pools
    /\ last' = IF r.ok THEN call ELSE Failed(call.op, r.err)
    /\ UNCHANGED <<contract, deposited_amounts, uniswap, bpool>>

\* The end of a uniswap call with outcome r.
UniswapReturn(call, r) ==
    /\ UniswapInBounds(r.uniswap)
    /\ uniswap' = r.uniswap
    /\ last' = IF r.ok
               THEN [call EXCEPT !.ret = r.ret, !.promises = r.promises]
               ELSE Failed(call.op, r.err)
    /\ UNCHANGED <<contract, pools, deposited_amounts, bpool>>

-----------------------------------------------------------------------------
(* multiswap: the external calls of the contract *)

AddPool ==
    \E tokens \in PoolTokenLists, fee \in Fees, storage_paid \in BOOLEAN :
        /\ Len(pools) < MaxPools
        /\ Return([NoCall EXCEPT !.op = "add_pool", !.tokens = tokens, !.fee = fee],
                  add_pool(tokens, fee, storage_paid))

Register ==
    \E account_id \in Accounts, attached \in {0, 1} :
        Return([NoCall EXCEPT !.op = "ar_register", !.caller = account_id,
                              !.amount = attached],
               ar_register(account_id, attached))

\* The call record of a token transfer t.
TransferCall(t) ==
    [NoCall EXCEPT !.op = "ft_on_transfer", !.caller = t.token_in,
                   !.token_in = t.token_in, !.sender_id = t.sender_id,
                   !.amount = t.amount, !.msg = t.msg.kind,
                   !.pool_id = t.msg.pool_id, !.token_out = t.msg.token_out,
                   !.min_amount_out = t.msg.min_amount_out]

\* ft_on_transfer with the message "deposit"
FtOnTransferDeposit ==
    \E t \in Deposits :
        Return(TransferCall(t), ft_on_transfer(t.token_in, t.sender_id, t.amount, t.msg))

\* ft_on_transfer with a swap message, or with a message of another shape
FtOnTransferSwap ==
    \E t \in SwapTransfers :
        Return(TransferCall(t), ft_on_transfer(t.token_in, t.sender_id, t.amount, t.msg))

AddLiquidity ==
    \E sender_id \in Accounts, pool_id \in PoolIds :
        Return([NoCall EXCEPT !.op = "add_liquidity", !.caller = sender_id,
                              !.pool_id = pool_id],
               add_liquidity(sender_id, pool_id))

RemoveLiquidity ==
    \E sender_id \in Accounts, pool_id \in PoolIds, shares \in SharesArgs,
       min_amounts \in MinAmountsArgs :
        Return([NoCall EXCEPT !.op = "remove_liquidity", !.caller = sender_id,
                              !.pool_id = pool_id, !.shares = shares,
                              !.min_amounts = min_amounts],
               remove_liquidity(sender_id, pool_id, shares, min_amounts))

Withdraw ==
    \E sender_id \in Accounts, token_id \in Tokens, amount \in WithdrawAmounts :
        Return([NoCall EXCEPT !.op = "withdraw", !.caller = sender_id,
                              !.token_in = token_id, !.amount = amount,
                              !.available_amount =
                                  IF sender_id \in DOMAIN deposited_amounts
                                  THEN MapGetOr(deposited_amounts[sender_id], token_id, 0)
                                  ELSE 0],
               withdraw(sender_id, token_id, amount))

GetReturn ==
    \E pool_id \in PoolIds, token_in \in Tokens, amount_in \in SwapAmounts,
       token_out \in Tokens :
        Return([NoCall EXCEPT !.op = "get_return", !.pool_id = pool_id,
                              !.token_in = token_in, !.amount = amount_in,
                              !.token_out = token_out],
               get_return(pool_id, token_in, amount_in, token_out))

\* the multi-action swap
Swap ==
    \E sender_id \in Accounts, actions \in ActionLists :
        Return([NoCall EXCEPT !.op = "swap", !.caller = sender_id, !.actions = actions],
               swap(sender_id, actions))

Init ==
    /\ contract = "multiswap"
    /\ pools = <<>>
    /\ deposited_amounts = EmptyMap
    /\ uniswap = Uniswap_new(0)
    /\ bpool = BPool_new("factory")
    /\ last = NoCall

\* The contract as src/multiswap/src/lib.rs has it.
Next ==
    \/ AddPool
    \/ Register
    \/ FtOnTransferDeposit
    \/ FtOnTransferSwap
    \/ AddLiquidity
    \/ RemoveLiquidity
    \/ Withdraw
    \/ GetReturn

Spec == Init /\ [][Next]_vars

\* The contract with the multi-action swap in place of the swap by transfer.
NextRouter ==
    \/ AddPool
    \/ Register
    \/ FtOnTransferDeposit
    \/ AddLiquidity
    \/ Swap

SpecRouter == Init /\ [][NextRouter]_vars

-----------------------------------------------------------------------------
(* multiswap: a Pool driven directly, as in pool.rs's test_pool_swap *)

PoolAddLiquidity ==
    \E sender_id \in Accounts, amounts \in PoolAmountsArgs :
        LET r == Pool_add_liquidity(pools[1], sender_id, amounts)
        IN PoolReturn([NoCall EXCEPT !.op = "Pool::add_liquidity", !.caller = sender_id,
                                     !.min_amounts = amounts, !.ret = r.ret],
                      [ok |-> TRUE, err |-> "", pool |-> r.pool])

PoolRemoveLiquidity ==
    \E sender_id \in Accounts, shares \in PoolSharesArgs, min_amounts \in PoolMinAmountsArgs :
        LET r == Pool_remove_liquidity(pools[1], sender_id, shares, min_amounts)
        IN PoolReturn([NoCall EXCEPT !.op = "Pool::remove_liquidity",
                                     !.caller = sender_id, !.shares = shares,
                                     !.min_amounts = min_amounts,
                                     !.amounts_out = r.amounts,
                                     !.promises = r.promises],
                      r)

PoolSwap ==
    \E token_in \in PoolSwapTokens, amount_in \in PoolSwapAmounts,
       token_out \in PoolSwapTokens, min_amount_out \in MinAmountsOut :
        LET r == Pool_swap(pools[1], "bob", token_in, amount_in, token_out, min_amount_out)
        IN PoolReturn([NoCall EXCEPT !.op = "Pool::swap", !.sender_id = "bob",
                                     !.token_in = token_in, !.amount = amount_in,
                                     !.token_out = token_out,
                                     !.min_amount_out = min_amount_out,
                                     !.ret = r.amount_out, !.amount_out = r.amount_out,
                                     !.promises = r.promises],
                      r)

PoolGetReturn ==
    \E token_in \in PoolSwapTokens, amount_in \in PoolSwapAmounts,
       token_out \in PoolSwapTokens :
        LET r == Pool_get_return(pools[1], token_in, amount_in, token_out)
        IN PoolReturn([NoCall EXCEPT !.op = "Pool::get_return", !.token_in = token_in,
                                     !.amount = amount_in, !.token_out = token_out,
                                     !.ret = r.ret],
                      [ok |-> r.ok, err |-> r.err, pool |-> pools[1]])

InitPool ==
    /\ contract = "pool"
    /\ \E fee \in PoolFees : pools = <<Pool_new(0, PoolTokens, fee).pool>>
    /\ deposited_amounts = EmptyMap
    /\ uniswap = Uniswap_new(0)
    /\ bpool = BPool_new("factory")
    /\ last = NoCall

NextPool ==
    \/ PoolAddLiquidity
    \/ PoolRemoveLiquidity
    \/ PoolSwap
    \/ PoolGetReturn

SpecPool == InitPool /\ [][NextPool]_vars

-----------------------------------------------------------------------------
(* multiswap: one Pool::swap from every pair of reserves.  A pool of two    *)
(* tokens holds the reserves <<a, b>> once Pool::add_liquidity has been     *)
(* called on it with those amounts.                                         *)

QuoteSwap ==
    \E i \in DOMAIN QuoteTokens, o \in DOMAIN QuoteTokens, amount_in \in QuoteAmounts,
       min_amount_out \in QuoteMinAmountsOut :
        LET r == Pool_swap(pools[1], "bob", QuoteTokens[i], amount_in, QuoteTokens[o],
                           min_amount_out)
        IN /\ last.op = "Pool::add_liquidity"
           /\ pools' = IF r.ok THEN <<r.pool>> ELSE pools
           /\ last' = IF r.ok
                      THEN [NoCall EXCEPT !.op = "Pool::swap", !.sender_id = "bob",
                                          !.token_in = QuoteTokens[i],
                                          !.amount = amount_in,
                                          !.token_out = QuoteTokens[o],
                                          !.min_amount_out = min_amount_out,
                                          !.ret = r.amount_out,
                                          !.amount_out = r.amount_out,
                                          !.promises = r.promises]
                      ELSE Failed("Pool::swap", r.err)
           /\ UNCHANGED <<contract, deposited_amounts, uniswap, bpool>>

InitQuote ==
    /\ contract = "pool"
    /\ \E fee \in QuoteFees, a \in QuoteReserves, b \in QuoteReserves :
          /\ pools = <<Pool_add_liquidity(Pool_new(0, QuoteTokens, fee).pool, "alice",
                                          <<a, b>>).pool>>
          /\ last = [NoCall EXCEPT !.op = "Pool::add_liquidity", !.caller = "alice",
                                   !.min_amounts = <<a, b>>,
                                   !.ret = INIT_SHARES_SUPPLY]
    /\ deposited_amounts = EmptyMap
    /\ uniswap = Uniswap_new(0)
    /\ bpool = BPool_new("factory")

NextQuote == QuoteSwap

SpecQuote == InitQuote /\ [][NextQuote]_vars

-----------------------------------------------------------------------------
(* uniswap: the external calls of the contract *)

UniswapAddLiquidity ==
    \E caller \in Accounts, attached \in UniswapNearAmounts :
        UniswapReturn([NoCall EXCEPT !.op = "uniswap.add_liquidity", !.caller = caller,
                                     !.amount = attached],
                      Uniswap_add_liquidity(caller, attached))

UniswapRemoveLiquidity ==
    \E caller \in Accounts, shares \in UniswapSharesArgs,
       min_near \in UniswapMinAmounts, min_token \in UniswapMinAmounts :
        UniswapReturn([NoCall EXCEPT !.op = "uniswap.remove_liquidity",
                                     !.caller = caller, !.shares = shares,
                                     !.min_amounts = <<min_near, min_token>>],
                      Uniswap_remove_liquidity(caller, shares, min_near, min_token))

UniswapSwapNearToToken ==
    \E caller \in Accounts, attached \in UniswapNearAmounts,
       min_amount \in UniswapMinAmounts :
        UniswapReturn([NoCall EXCEPT !.op = "swap_near_to_token", !.caller = caller,
                                     !.amount = attached, !.min_amount_out = min_amount],
                      swap_near_to_token(caller, attached, min_amount))

\* For a message "liquidity" the record also holds what the call did: the
\* shares it minted, and the NEAR (the sender's pending deposit) and the
\* tokens (the value finish_add_liquidity returns) it took as liquidity.
UniswapFtOnTransfer ==
    \E predecessor \in {TOKEN_ACCOUNT, "dai"}, sender_id \in Accounts,
       amount \in UniswapTokenAmounts, msg \in UniswapMsgs :
        LET r == Uniswap_ft_on_transfer(predecessor, sender_id, amount, msg)
            minted == r.uniswap.shares_total_supply - uniswap.shares_total_supply
            added == <<MapGetOr(uniswap.near_balances, sender_id, 0), r.ret>>
        IN UniswapReturn([NoCall EXCEPT !.op = "uniswap.ft_on_transfer",
                                        !.caller = predecessor, !.sender_id = sender_id,
                                        !.amount = amount, !.msg = msg.kind,
                                        !.min_amount_out = msg.min_near_amount,
                                        !.shares =
                                            IF msg.kind = "liquidity" THEN minted ELSE 0,
                                        !.amounts_out =
                                            IF msg.kind = "liquidity" THEN added ELSE <<>>],
                         r)

InitUniswap ==
    /\ contract = "uniswap"
    /\ pools = <<>>
    /\ deposited_amounts = EmptyMap
    /\ \E fee \in UniswapFees : uniswap = Uniswap_new(fee)
    /\ bpool = BPool_new("factory")
    /\ last = NoCall

NextUniswap ==
    \/ UniswapAddLiquidity
    \/ UniswapRemoveLiquidity
    \/ UniswapSwapNearToToken
    \/ UniswapFtOnTransfer

SpecUniswap == InitUniswap /\ [][NextUniswap]_vars

-----------------------------------------------------------------------------
(* The two kinds of pool together: the Pool of multiswap and the exchange *)

InitAMM == InitPool \/ InitUniswap

NextAMM ==
    \/ contract = "pool" /\ NextPool
    \/ contract = "uniswap" /\ NextUniswap

SpecAMM == InitAMM /\ [][NextAMM]_vars

-----------------------------------------------------------------------------
(* Properties of Pool::swap (SpecPool) *)

\* The step is a successful Pool::swap.
PoolSwapped == last'.op = "Pool::swap" /\ last'.ok

\* C1: every successful Pool::swap(token_in, amount_in, token_out,
\* min_amount_out) adds amount_in to the reserve of token_in, takes the
\* returned amount_out from the reserve of token_out, and leaves the
\* reserve of every other token of the pool as it was.
C1_SwapConservation ==
    [][PoolSwapped =>
         LET in_idx == token_index(pools[1], last'.token_in)
             out_idx == token_index(pools[1], last'.token_out)
         IN /\ pools'[1].amounts[in_idx] = pools[1].amounts[in_idx] + last'.amount
            /\ pools'[1].amounts[out_idx] = pools[1].amounts[out_idx] - last'.ret
            /\ \A i \in DOMAIN pools[1].amounts \ {in_idx, out_idx} :
                  pools'[1].amounts[i] = pools[1].amounts[i]]_vars

\* A swap has paid in 2 and paid out a positive amount, in a pool whose third
\* token holds a reserve.
C1_Witness ==
    /\ contract = "pool"
    /\ last.op = "Pool::swap" /\ last.ok
    /\ last.amount = 2 /\ last.ret > 0
    /\ \A i \in DOMAIN pools[1].amounts : pools[1].amounts[i] > 0

\* C3: for every successful Pool::swap, whatever the fee, the reserves and
\* amount_in, the product of the two reserves it touches does not decrease
\* (SpecQuote: every pair of reserves, fees from 0 to FEE_DIVISOR - 1).
C3_ProductNonDecreasing ==
    [][PoolSwapped =>
         LET in_idx == token_index(pools[1], last'.token_in)
             out_idx == token_index(pools[1], last'.token_out)
         IN pools'[1].amounts[in_idx] * pools'[1].amounts[out_idx]
                >= pools[1].amounts[in_idx] * pools[1].amounts[out_idx]]_vars

\* A swap has paid out a positive amount in a pool that charges a fee, and
\* the product of its reserves has grown.
C3_Witness ==
    /\ contract = "pool"
    /\ last.op = "Pool::swap" /\ last.ok /\ last.ret > 0
    /\ pools[1].fee = 500
    /\ pools[1].amounts[1] * pools[1].amounts[2] > QuoteMaxReserve

-----------------------------------------------------------------------------
(* Properties of the swaps of the exchange (SpecUniswap) *)

\* C2: every successful swap of the exchange, in either direction, adds the
\* amount paid in to the reserve of the input side and takes the amount
\* bought from the reserve of the output side: swap_near_to_token pays NEAR
\* in and buys tokens, a token transfer with a minimum as its message pays
\* tokens in and buys NEAR.
C2_UniswapSwapConservation ==
    [][/\ (last'.op = "swap_near_to_token" /\ last'.ok) =>
             /\ uniswap'.near_amount = uniswap.near_amount + last'.amount
             /\ uniswap'.token_amount = uniswap.token_amount - last'.ret
       /\ (last'.op = "uniswap.ft_on_transfer" /\ last'.ok /\ last'.msg = "min") =>
             /\ uniswap'.token_amount = uniswap.token_amount + last'.amount
             /\ uniswap'.near_amount
                    = uniswap.near_amount - last'.promises[1].amount]_vars

-----------------------------------------------------------------------------
(* Properties of the multi-action swap (SpecRouter) *)

\* The outcome of the first action of a list alone, from the current state.
FirstActionAlone(sender_id, actions) ==
    execute_actions([ok |-> TRUE, err |-> "", pools |-> pools,
                     deposited_amounts |-> deposited_amounts, amounts_out |-> <<>>],
                    sender_id, SubSeq(actions, 1, 1), 1)

\* C4: a multi-action swap in which any action fails (the ledger balance is
\* too small, the minimum output is not met, the pool does not exist)
\* leaves every ledger balance and every pool reserve as before the call,
\* the effects of its earlier actions included: in every state, a call
\* that fails yields the state it started from, and the step of a failed
\* call changes neither the pools nor the ledger.
C4_RouterAllOrNothing ==
    /\ [](\A sender_id \in Accounts, actions \in ActionLists :
            LET r == swap(sender_id, actions)
            IN ~r.ok => /\ r.pools = pools
                        /\ r.deposited_amounts = deposited_amounts)
    /\ [][(last'.op = "swap" /\ ~last'.ok) =>
             /\ pools' = pools
             /\ deposited_amounts' = deposited_amounts]_vars

\* A multi-action swap has just failed on its second action, for each of the
\* three reasons, although its first action succeeds on its own.
C4_Witness ==
    /\ last.op = "swap" /\ ~last.ok
    /\ \A e \in {"InsufficientBalance", "SlippageExceeded", "NotFound"} :
          \E sender_id \in Accounts, actions \in ActionLists :
              /\ Len(actions) = 2
              /\ FirstActionAlone(sender_id, actions).ok
              /\ FirstActionAlone(sender_id, actions).pools # pools
              /\ ~swap(sender_id, actions).ok
              /\ swap(sender_id, actions).err = e

-----------------------------------------------------------------------------
(* Properties of the ledger and of liquidity in the multiswap contract (Spec) *)

\* The recorded balance of token_id of account_id, 0 when there is no entry.
Ledger(deps, account_id, token_id) ==
    IF account_id \in DOMAIN deps THEN MapGetOr(deps[account_id], token_id, 0) ELSE 0

\* C5: add_liquidity and remove_liquidity only move funds between the
\* caller's ledger and the pool: for every token of the pool, the sum of the
\* caller's ledger balance and the pool's reserve is the same after the
\* call as before, whether or not the pool already has liquidity.
C5_LiquidityMovesFunds ==
    [][(last'.op \in {"add_liquidity", "remove_liquidity"} /\ last'.ok) =>
         LET before == PoolAt(pools, last'.pool_id)
             after == PoolAt(pools', last'.pool_id)
         IN \A i \in DOMAIN before.token_account_ids :
               Ledger(deposited_amounts', last'.caller, before.token_account_ids[i])
                   + after.amounts[i]
               = Ledger(deposited_amounts, last'.caller, before.token_account_ids[i])
                   + before.amounts[i]]_vars

\* C6: a deposit of amount a of token t to a registered account leaves its
\* balance of t at the previous balance (0 without an entry) plus a, and
\* its balances of the other tokens as they were.
C6_DepositAdds ==
    [][(last'.op = "ft_on_transfer" /\ last'.msg = "deposit" /\ last'.ok) =>
         /\ Ledger(deposited_amounts', last'.sender_id, last'.token_in)
                = Ledger(deposited_amounts, last'.sender_id, last'.token_in)
                      + last'.amount
         /\ \A t \in Tokens \ {last'.token_in} :
               Ledger(deposited_amounts', last'.sender_id, t)
                   = Ledger(deposited_amounts, last'.sender_id, t)]_vars

\* C7: withdraw(token, amount) fails when amount exceeds the caller's
\* recorded balance of the token, and a withdraw that succeeds leaves the
\* recorded balance lower by amount, without an entry when nothing remains.
C7_WithdrawDebits ==
    /\ [](\A sender_id \in Accounts, token_id \in Tokens, amount \in WithdrawAmounts :
            amount > Ledger(deposited_amounts, sender_id, token_id)
                => ~withdraw(sender_id, token_id, amount).ok)
    /\ [][(last'.op = "withdraw" /\ last'.ok) =>
             LET before == Ledger(deposited_amounts, last'.caller, last'.token_in)
             IN /\ Ledger(deposited_amounts', last'.caller, last'.token_in)
                       = before - last'.amount
                /\ before = last'.amount
                       => last'.token_in
                              \notin DOMAIN deposited_amounts'[last'.caller]]_vars

\* The amount Pool::remove_liquidity computes for token i of pool.
ComputedAmount(pool, shares, i) ==
    (pool.amounts[i] * shares) \div pool.shares_total_supply

\* C9: remove_liquidity settles every token or none: when the amount
\* computed for some token i is below min_amounts[i] the call fails, and a
\* failed call changes no reserve, no share balance, no total supply and no
\* ledger balance and pays nothing out.
C9_RemoveLiquidityAllOrNothing ==
    /\ [](\A sender_id \in Accounts, pool_id \in PoolIds, shares \in SharesArgs,
             min_amounts \in MinAmountsArgs :
            (/\ HasPool(pools, pool_id)
             /\ PoolAt(pools, pool_id).shares_total_supply > 0
             /\ \E i \in DOMAIN min_amounts :
                   ComputedAmount(PoolAt(pools, pool_id), shares, i) < min_amounts[i])
            => LET r == remove_liquidity(sender_id, pool_id, shares, min_amounts)
               IN /\ ~r.ok
                  /\ r.pools = pools
                  /\ r.deposited_amounts = deposited_amounts
                  /\ r.promises = <<>>)
    /\ [][(last'.op = "remove_liquidity" /\ ~last'.ok) =>
             /\ pools' = pools
             /\ deposited_amounts' = deposited_amounts]_vars

\* A remove_liquidity has just failed for a minimum, and in this state a
\* holder's call meets the minimum of the first token, which
\* Pool::remove_liquidity takes from the reserve, before it fails on the
\* second.
C9_Witness ==
    /\ last.op = "remove_liquidity" /\ ~last.ok /\ last.err = "ERR_MIN_AMOUNT"
    /\ \E sender_id \in Accounts, shares \in SharesArgs, min_amounts \in MinAmountsArgs :
          LET r == Pool_remove_liquidity(PoolAt(pools, 0), sender_id, shares, min_amounts)
          IN /\ ~r.ok /\ r.err = "ERR_MIN_AMOUNT"
             /\ r.pool.amounts[1] < PoolAt(pools, 0).amounts[1]
             /\ Len(r.promises) = 1
             /\ ~remove_liquidity(sender_id, 0, shares, min_amounts).ok

\* The caller's ledger balances of the pool's tokens are not in the ratio
\* of the pool's reserves.
RatioMismatch(pool, deposits) ==
    \E i \in DOMAIN pool.amounts, j \in DOMAIN pool.amounts :
        deposits[pool.token_account_ids[i]] * pool.amounts[j]
            # deposits[pool.token_account_ids[j]] * pool.amounts[i]

\* C10: add_liquidity on a pool that already has liquidity, with amounts
\* that are not in the ratio of the pool's reserves, is rejected, and it
\* changes no reserve, share balance, total supply or ledger balance.
C10_MismatchedAddRejected ==
    \A sender_id \in Accounts, pool_id \in PoolIds :
        (/\ HasPool(pools, pool_id)
         /\ PoolAt(pools, pool_id).shares_total_supply > 0
         /\ sender_id \in DOMAIN deposited_amounts
         /\ \A i \in DOMAIN PoolAt(pools, pool_id).token_account_ids :
               PoolAt(pools, pool_id).token_account_ids[i]
                   \in DOMAIN deposited_amounts[sender_id]
         /\ RatioMismatch(PoolAt(pools, pool_id), deposited_amounts[sender_id]))
        => LET r == add_liquidity(sender_id, pool_id)
           IN /\ ~r.ok
              /\ r.pools = pools
              /\ r.deposited_amounts = deposited_amounts

-----------------------------------------------------------------------------
(* Properties of the shares of both kinds of pool (SpecAMM) *)

\* C8: in every reachable state of a pool, the Pool of multiswap and the
\* exchange alike, the share balances of all accounts add up to the total
\* share supply.
C8_SharesSumToSupply ==
    /\ contract = "pool" =>
          SumMap(pools[1].shares) = pools[1].shares_total_supply
    /\ contract = "uniswap" =>
          SumMap(uniswap.shares) = uniswap.shares_total_supply

\* Two accounts hold shares of the exchange, and one of them has just taken
\* a part of its shares out.
C8_Witness ==
    /\ contract = "uniswap"
    /\ last.op = "uniswap.remove_liquidity" /\ last.ok
    /\ \A a \in Accounts : a \in DOMAIN uniswap.shares /\ uniswap.shares[a] > 0

-----------------------------------------------------------------------------
(* Properties of Pool::add_liquidity on a pool that has liquidity (SpecPool) *)

\* The least of a non-empty set of numbers.
Least(S) == CHOOSE n \in S : \A m \in S : n <= m

\* floor(totalShares * amountDeposited / currentReserve) for the limiting
\* token: the least of these over the tokens of the pool.
SharesForDeposit(pool, amounts) ==
    Least({(pool.shares_total_supply * amounts[i]) \div pool.amounts[i] :
               i \in DOMAIN pool.amounts})

\* C11: a successful Pool::add_liquidity on a pool whose total share supply
\* is already positive mints to the caller floor(totalShares *
\* amountDeposited / currentReserve) shares for the limiting token, adds
\* as many to the total supply, and adds the deposited amounts to the
\* reserves.
C11_LaterProvisionMints ==
    [][(/\ last'.op = "Pool::add_liquidity" /\ last'.ok
        /\ pools[1].shares_total_supply > 0
        /\ \A i \in DOMAIN pools[1].amounts : pools[1].amounts[i] > 0) =>
         LET minted == SharesForDeposit(pools[1], last'.min_amounts)
         IN /\ last'.ret = minted
            /\ MapGetOr(pools'[1].shares, last'.caller, 0)
                   = MapGetOr(pools[1].shares, last'.caller, 0) + minted
            /\ pools'[1].shares_total_supply = pools[1].shares_total_supply + minted
            /\ \A i \in DOMAIN pools[1].amounts :
                  pools'[1].amounts[i] = pools[1].amounts[i] + last'.min_amounts[i]]_vars

-----------------------------------------------------------------------------
(* Properties of add_liquidity and of a swap on the ledger (Spec) *)

\* C12: add_liquidity moves exactly the amounts the caller specifies out of
\* the caller's ledger and into the reserves of the pool, and what the
\* ledger holds above them stays in the ledger: whenever the caller's
\* ledger covers the amounts, the call succeeds, takes amounts[i] of token
\* i from the ledger and adds amounts[i] to reserve i.
C12_AddLiquidityMovesSpecified ==
    \A sender_id \in Accounts, pool_id \in PoolIds, amounts \in SpecifiedAmounts :
        (/\ HasPool(pools, pool_id)
         /\ sender_id \in DOMAIN deposited_amounts
         /\ \A i \in DOMAIN amounts :
               /\ PoolAt(pools, pool_id).token_account_ids[i]
                      \in DOMAIN deposited_amounts[sender_id]
               /\ amounts[i] <= deposited_amounts[sender_id][
                                     PoolAt(pools, pool_id).token_account_ids[i]])
        => LET r == add_liquidity(sender_id, pool_id)
               before == PoolAt(pools, pool_id)
           IN /\ r.ok
              /\ \A i \in DOMAIN amounts :
                    /\ Ledger(r.deposited_amounts, sender_id, before.token_account_ids[i])
                           = Ledger(deposited_amounts, sender_id,
                                    before.token_account_ids[i]) - amounts[i]
                    /\ PoolAt(r.pools, pool_id).amounts[i]
                           = before.amounts[i] + amounts[i]

\* C13: a successful swap takes exactly the amount paid in from the caller's
\* ledger balance of the token paid in, adds exactly the amount the pool
\* paid out to the caller's ledger balance of the token bought, and
\* changes no other ledger balance.
C13_SwapOnLedger ==
    [][(last'.op = "ft_on_transfer" /\ last'.msg = "swap" /\ last'.ok) =>
         /\ Ledger(deposited_amounts', last'.sender_id, last'.token_in)
                = Ledger(deposited_amounts, last'.sender_id, last'.token_in)
                      - last'.amount
         /\ Ledger(deposited_amounts', last'.sender_id, last'.token_out)
                = Ledger(deposited_amounts, last'.sender_id, last'.token_out)
                      + last'.amount_out
         /\ \A a \in Accounts, t \in Tokens :
               (a # last'.sender_id \/ t \notin {last'.token_in, last'.token_out})
                   => Ledger(deposited_amounts', a, t) = Ledger(deposited_amounts, a, t)]_vars

-----------------------------------------------------------------------------
(* Properties of the quote (SpecQuote) and of invalid swaps (SpecPool) *)

\* floor(amount_in * (1000 - fee) * r_out / (1000 * r_in + amount_in * (1000 - fee)))
QuoteFormula(fee, r_in, r_out, amount_in) ==
    (amount_in * (1000 - fee) * r_out) \div (1000 * r_in + amount_in * (1000 - fee))

\* C14: for every pool state with positive reserves r_in and r_out, distinct
\* tokens and amount_in > 0, get_return is floor(amount_in * (1000 - fee) *
\* r_out / (1000 * r_in + amount_in * (1000 - fee))), and a swap on the
\* same state pays out that value.
C14_QuoteFormula ==
    /\ [](\A i \in DOMAIN QuoteTokens, o \in DOMAIN QuoteTokens, amount_in \in QuoteAmounts :
            (/\ pools[1].amounts[i] > 0 /\ pools[1].amounts[o] > 0
             /\ i # o /\ amount_in > 0)
            => LET r == Pool_get_return(pools[1], QuoteTokens[i], amount_in, QuoteTokens[o])
               IN /\ r.ok
                  /\ r.ret = QuoteFormula(pools[1].fee, pools[1].amounts[i],
                                          pools[1].amounts[o], amount_in))
    /\ [][PoolSwapped =>
             LET i == token_index(pools[1], last'.token_in)
                 o == token_index(pools[1], last'.token_out)
             IN /\ last'.ret = QuoteFormula(pools[1].fee, pools[1].amounts[i],
                                            pools[1].amounts[o], last'.amount)
                /\ last'.ret = Pool_get_return(pools[1], last'.token_in, last'.amount,
                                               last'.token_out).ret
                /\ last'.promises[1].amount = last'.ret]_vars

\* A swap has paid out a positive amount that the fee has made smaller than
\* the quote without a fee would be.
C14_Witness ==
    /\ contract = "pool"
    /\ last.op = "Pool::swap" /\ last.ok /\ last.ret > 0
    /\ pools[1].fee = 3
    /\ LET i == token_index(pools[1], last.token_in)
           o == token_index(pools[1], last.token_out)
       IN last.ret < (last.amount * (pools[1].amounts[o] + last.ret))
                         \div pools[1].amounts[i]

\* The swap or quote of amount_in from token i to token o of the pool is one
\* the pool must refuse: the same token, an empty reserve, or nothing paid in.
InvalidSwap(pool, i, o, amount_in) ==
    i = o \/ pool.amounts[i] = 0 \/ pool.amounts[o] = 0 \/ amount_in = 0

\* C15: get_return and swap fail and leave all state as it was whenever
\* token_in equals token_out, or the reserve of either token is 0, or
\* amount_in is 0; the failure is the invalid-input failure, never the
\* minimum-amount failure, whatever min_amount_out is.
C15_InvalidSwapFails ==
    /\ [](\A i \in DOMAIN PoolTokens, o \in DOMAIN PoolTokens,
             amount_in \in PoolSwapAmounts, min_amount_out \in {0} \cup MinAmountsOut :
            InvalidSwap(pools[1], i, o, amount_in)
            => LET q == Pool_get_return(pools[1], PoolTokens[i], amount_in, PoolTokens[o])
                   r == Pool_swap(pools[1], "bob", PoolTokens[i], amount_in,
                                  PoolTokens[o], min_amount_out)
               IN /\ ~q.ok /\ q.err = "ERR_INVALID"
                  /\ ~r.ok /\ r.err = "ERR_INVALID"
                  /\ r.pool = pools[1] /\ r.promises = <<>>)
    /\ [][(last'.op \in {"Pool::swap", "Pool::get_return"} /\ ~last'.ok)
             => pools' = pools]_vars

\* A swap has just been refused as invalid in a pool whose reserves are all
\* positive, where a swap of a token for itself asks for no minimum the
\* pool could fail to meet.
C15_Witness ==
    /\ contract = "pool"
    /\ last.op = "Pool::swap" /\ ~last.ok /\ last.err = "ERR_INVALID"
    /\ \A i \in DOMAIN pools[1].amounts : pools[1].amounts[i] > 0
    /\ ~Pool_swap(pools[1], "bob", "dai", 2, "dai", 1).ok

-----------------------------------------------------------------------------
(* Properties of swaps and of remove_liquidity in both kinds of pool (SpecAMM) *)

\* C16: a swap whose computed amount_out is below min_amount_out fails with
\* the minimum-amount error and leaves the reserves as they were; every swap
\* that succeeds returns an amount_out of at least min_amount_out.
C16_MinAmountOut ==
    /\ [](contract = "pool" =>
            \A i \in DOMAIN PoolTokens, o \in DOMAIN PoolTokens,
               amount_in \in PoolSwapAmounts, min_amount_out \in MinAmountsOut :
              (/\ ~InvalidSwap(pools[1], i, o, amount_in)
               /\ QuoteFormula(pools[1].fee, pools[1].amounts[i], pools[1].amounts[o],
                               amount_in) < min_amount_out)
              => LET r == Pool_swap(pools[1], "bob", PoolTokens[i], amount_in,
                                    PoolTokens[o], min_amount_out)
                 IN ~r.ok /\ r.err = "ERR_MIN_AMOUNT" /\ r.pool = pools[1])
    /\ [](contract = "uniswap" =>
            \A amount \in UniswapNearAmounts \cup UniswapTokenAmounts,
               min_amount \in UniswapMinAmounts :
              (uniswap.near_amount > 0 /\ uniswap.token_amount > 0)
              => /\ QuoteFormula(uniswap.fee, uniswap.near_amount, uniswap.token_amount,
                                 amount) < min_amount
                    => LET r == swap_near_to_token("bob", amount, min_amount)
                       IN ~r.ok /\ r.err = "ERR_MIN_AMOUNT" /\ r.uniswap = uniswap
                 /\ QuoteFormula(uniswap.fee, uniswap.token_amount, uniswap.near_amount,
                                 amount) < min_amount
                    => LET r == swap_token_to_near("bob", amount, min_amount)
                       IN ~r.ok /\ r.err = "ERR_MIN_AMOUNT" /\ r.uniswap = uniswap)
    /\ [][/\ (last'.op \in {"Pool::swap", "swap_near_to_token"} /\ last'.ok)
              => last'.ret >= last'.min_amount_out
          /\ (last'.op = "uniswap.ft_on_transfer" /\ last'.msg = "min" /\ last'.ok)
              => last'.promises[1].amount >= last'.min_amount_out
          /\ (last'.op \in {"Pool::swap", "swap_near_to_token", "uniswap.ft_on_transfer"}
                 /\ ~last'.ok)
              => pools' = pools /\ uniswap' = uniswap]_vars

\* A swap in a pool with positive reserves has just failed for its minimum.
C16_Witness ==
    /\ contract = "pool"
    /\ last.op = "Pool::swap" /\ ~last.ok /\ last.err = "ERR_MIN_AMOUNT"
    /\ \E i \in DOMAIN PoolTokens, o \in DOMAIN PoolTokens, amount_in \in PoolSwapAmounts :
          /\ ~InvalidSwap(pools[1], i, o, amount_in)
          /\ QuoteFormula(pools[1].fee, pools[1].amounts[i], pools[1].amounts[o],
                          amount_in) \in 1..2

\* C17: a successful remove_liquidity of s shares pays out, for every token
\* i, floor(reserves[i] * s / totalShares) computed on the state before the
\* call, and decreases reserves[i] by that amount.
C17_RemoveLiquidityPays ==
    [][/\ (last'.op = "Pool::remove_liquidity" /\ last'.ok)
          => /\ Len(last'.amounts_out) = Len(pools[1].amounts)
             /\ Len(last'.promises) = Len(pools[1].amounts)
             /\ \A i \in DOMAIN pools[1].amounts :
                   LET paid == (pools[1].amounts[i] * last'.shares)
                                   \div pools[1].shares_total_supply
                   IN /\ last'.amounts_out[i] = paid
                      /\ last'.promises[i] = Transfer(last'.caller,
                                                      pools[1].token_account_ids[i], paid)
                      /\ pools'[1].amounts[i] = pools[1].amounts[i] - paid
       /\ (last'.op = "uniswap.remove_liquidity" /\ last'.ok)
          => LET near_paid == (uniswap.near_amount * last'.shares)
                                  \div uniswap.shares_total_supply
                 token_paid == (uniswap.token_amount * last'.shares)
                                   \div uniswap.shares_total_supply
             IN /\ last'.promises = <<Transfer(last'.caller, NEAR, near_paid),
                                      Transfer(last'.caller, TOKEN_ACCOUNT, token_paid)>>
                /\ uniswap'.near_amount = uniswap.near_amount - near_paid
                /\ uniswap'.token_amount = uniswap.token_amount - token_paid]_vars

\* Part of the shares of a pool has been removed, and the amount paid out of
\* the second token was rounded down.
C17_Witness ==
    /\ contract = "pool"
    /\ last.op = "Pool::remove_liquidity" /\ last.ok
    /\ pools[1].shares_total_supply > 0
    /\ last.amounts_out[2] > 0
    /\ last.amounts_out[2] * (pools[1].shares_total_supply + last.shares)
           < (pools[1].amounts[2] + last.amounts_out[2]) * last.shares

\* C18: remove_liquidity fails without changing any state when shares is
\* more than the caller's share balance; when it succeeds the caller's share
\* balance and the total supply each go down by shares, and no other
\* account's shares change.
C18_RemoveLiquidityShares ==
    /\ [](contract = "pool" =>
            \A caller \in Accounts, shares \in PoolSharesArgs,
               min_amounts \in PoolMinAmountsArgs :
              shares > MapGetOr(pools[1].shares, caller, 0)
              => LET r == Pool_remove_liquidity(pools[1], caller, shares, min_amounts)
                 IN ~r.ok /\ r.pool = pools[1] /\ r.promises = <<>>)
    /\ [](contract = "uniswap" =>
            \A caller \in Accounts, shares \in UniswapSharesArgs,
               min_near \in {0} \cup UniswapMinAmounts,
               min_token \in {0} \cup UniswapMinAmounts :
              shares > MapGetOr(uniswap.shares, caller, 0)
              => LET r == Uniswap_remove_liquidity(caller, shares, min_near, min_token)
                 IN ~r.ok /\ r.uniswap = uniswap /\ r.promises = <<>>)
    /\ [][/\ (last'.op \in {"Pool::remove_liquidity", "uniswap.remove_liquidity"}
                 /\ ~last'.ok)
              => pools' = pools /\ uniswap' = uniswap
          /\ (last'.op = "Pool::remove_liquidity" /\ last'.ok)
              => /\ MapGetOr(pools'[1].shares, last'.caller, 0)
                      = MapGetOr(pools[1].shares, last'.caller, 0) - last'.shares
                 /\ pools'[1].shares_total_supply
                      = pools[1].shares_total_supply - last'.shares
                 /\ \A a \in Accounts \ {last'.caller} :
                       MapGetOr(pools'[1].shares, a, 0) = MapGetOr(pools[1].shares, a, 0)
          /\ (last'.op = "uniswap.remove_liquidity" /\ last'.ok)
              => /\ MapGetOr(uniswap'.shares, last'.caller, 0)
                      = MapGetOr(uniswap.shares, last'.caller, 0) - last'.shares
                 /\ uniswap'.shares_total_supply
                      = uniswap.shares_total_supply - last'.shares
                 /\ \A a \in Accounts \ {last'.caller} :
                       MapGetOr(uniswap'.shares, a, 0) = MapGetOr(uniswap.shares, a, 0)]_vars

\* A holder of shares of a pool has just asked for more shares than they
\* hold, and the call has failed.
C18_Witness ==
    /\ contract = "pool"
    /\ last.op = "Pool::remove_liquidity" /\ ~last.ok
    /\ last.err = "ERR_NOT_ENOUGH_SHARES"
    /\ pools[1].shares_total_supply > 0

\* C19: when the sole provider removes all the shares there are, after any
\* successful swaps, every reserve of the pool is 0 and the total supply is 0.
C19_FullRemovalEmptiesPool ==
    [][/\ (/\ last'.op = "Pool::remove_liquidity" /\ last'.ok
           /\ last'.shares = pools[1].shares_total_supply)
          => /\ \A i \in DOMAIN pools'[1].amounts : pools'[1].amounts[i] = 0
             /\ pools'[1].shares_total_supply = 0
       /\ (/\ last'.op = "uniswap.remove_liquidity" /\ last'.ok
           /\ last'.shares = uniswap.shares_total_supply)
          => /\ uniswap'.near_amount = 0 /\ uniswap'.token_amount = 0
             /\ uniswap'.shares_total_supply = 0]_vars

\* All the shares of a pool have been removed after a swap had brought the
\* reserve of the first token above everything deposited.
C19_Witness ==
    /\ contract = "pool"
    /\ last.op = "Pool::remove_liquidity" /\ last.ok
    /\ pools[1].shares_total_supply = 0
    /\ \A amounts \in PoolAmountsArgs : last.amounts_out[1] > amounts[1]

-----------------------------------------------------------------------------
(* Properties of the first provision to a Pool (SpecPool) *)

\* The amounts a first provision may deposit.
FirstAmounts == [DOMAIN PoolTokens -> 0..PoolMaxBalance]

\* C20: the first provision to a Pool, whose total supply is 0, mints
\* exactly INIT_SHARES_SUPPLY shares to the provider whatever the amounts
\* deposited are, sets the total supply to that constant and sets each
\* reserve to the amount deposited.
C20_FirstProvision ==
    /\ [](pools[1].shares_total_supply = 0 =>
            \A sender_id \in Accounts, amounts \in FirstAmounts :
              LET r == Pool_add_liquidity(pools[1], sender_id, amounts)
              IN /\ r.ret = INIT_SHARES_SUPPLY
                 /\ r.pool.shares = MapInsert(EmptyMap, sender_id, INIT_SHARES_SUPPLY)
                 /\ r.pool.shares_total_supply = INIT_SHARES_SUPPLY
                 /\ r.pool.amounts = amounts)
    /\ [][(/\ last'.op = "Pool::add_liquidity" /\ last'.ok
           /\ pools[1].shares_total_supply = 0)
          => /\ last'.ret = INIT_SHARES_SUPPLY
             /\ MapGetOr(pools'[1].shares, last'.caller, 0) = INIT_SHARES_SUPPLY
             /\ pools'[1].shares_total_supply = INIT_SHARES_SUPPLY
             /\ pools'[1].amounts = last'.min_amounts]_vars

\* bob has just made the first provision to a pool and holds all its
\* shares; some reserve differs from the number of shares minted.
C20_Witness ==
    /\ contract = "pool"
    /\ last.op = "Pool::add_liquidity" /\ last.ok
    /\ last.caller = "bob" /\ last.ret = INIT_SHARES_SUPPLY
    /\ pools[1].shares = MapInsert(EmptyMap, "bob", INIT_SHARES_SUPPLY)
    /\ \E i \in DOMAIN pools[1].amounts : pools[1].amounts[i] # INIT_SHARES_SUPPLY

-----------------------------------------------------------------------------
(* Properties of the shares and reserves of both kinds of pool (SpecAMM) *)

\* The amounts a provision to the pool of three tokens may deposit.
RoundTripAmounts == PoolAmountsArgs \cup {<<0, 0, 0>>, <<1, 1, 1>>, <<0, 3, 6>>}

\* C21: adding liquidity and then at once removing exactly the shares that
\* were minted returns, for every token, no more than was deposited.
C21_RoundTripBound ==
    /\ [](contract = "pool" =>
            \A sender_id \in Accounts, amounts \in RoundTripAmounts :
              LET a == Pool_add_liquidity(pools[1], sender_id, amounts)
                  taken == [i \in DOMAIN amounts |-> a.pool.amounts[i] - pools[1].amounts[i]]
                  r == Pool_remove_liquidity(a.pool, sender_id, a.ret, <<0, 0, 0>>)
              IN r.ok => \A i \in DOMAIN amounts :
                            r.amounts[i] <= taken[i] /\ taken[i] <= amounts[i])
    /\ [][(/\ last.op = "uniswap.ft_on_transfer" /\ last.msg = "liquidity" /\ last.ok
           /\ last'.op = "uniswap.remove_liquidity" /\ last'.ok
           /\ last'.caller = last.sender_id
           /\ last'.shares = last.shares)
          => /\ last'.promises[1].amount <= last.amounts_out[1]
             /\ last'.promises[2].amount <= last.amounts_out[2]]_vars

\* An account has just added liquidity to an exchange that held some
\* already; removing the shares minted for it now succeeds and pays it less
\* NEAR than it has put in.
C21_Witness ==
    /\ contract = "uniswap"
    /\ last.op = "uniswap.ft_on_transfer" /\ last.msg = "liquidity" /\ last.ok
    /\ last.shares > 0 /\ last.shares < uniswap.shares_total_supply
    /\ LET r == Uniswap_remove_liquidity(last.sender_id, last.shares, 1, 1)
       IN /\ r.ok
          /\ r.promises[1].amount < last.amounts_out[1]

\* The shares of the pool and of the exchange: every balance and the total.
Shares == <<IF contract = "pool" THEN <<pools[1].shares, pools[1].shares_total_supply>>
            ELSE <<>>,
            uniswap.shares, uniswap.shares_total_supply>>

\* C22: a swap never changes the total share supply of the pool nor the
\* share balance of any account; only add_liquidity and remove_liquidity do.
C22_SwapKeepsShares ==
    [][/\ (\/ last'.op \in {"Pool::swap", "Pool::get_return", "swap_near_to_token"}
           \/ last'.op = "uniswap.ft_on_transfer" /\ last'.msg # "liquidity")
          => Shares' = Shares
       /\ Shares' # Shares
          => \/ last'.op \in {"Pool::add_liquidity", "Pool::remove_liquidity",
                               "uniswap.remove_liquidity"}
             \/ last'.op = "uniswap.ft_on_transfer" /\ last'.msg = "liquidity"]_vars

\* NEAR has just been swapped for tokens in an exchange in which both
\* accounts hold shares.
C22_Witness ==
    /\ contract = "uniswap"
    /\ last.op = "swap_near_to_token" /\ last.ok /\ last.ret > 0
    /\ \A a \in Accounts : MapGetOr(uniswap.shares, a, 0) > 0

-----------------------------------------------------------------------------
(* multiswap: the registry of pools, filled by add_pool with token lists of *)
(* every length from 0 to one more than MAX_NUM_TOKENS and with lists that  *)
(* name a token twice                                                       *)

MaxCreated == 2

CreateTokens == <<"t01", "t02", "t03", "t04", "t05", "t06", "t07", "t08", "t09", "t10", "t11">>
CreateTokenLists ==
    {SubSeq(CreateTokens, 1, n) : n \in 0..(MAX_NUM_TOKENS + 1)}
        \cup {<<"t01", "t01">>, <<"t01", "t02", "t01">>}

CreatePool ==
    \E tokens \in CreateTokenLists, fee \in Fees, storage_paid \in BOOLEAN :
        /\ Len(pools) < MaxCreated
        /\ Return([NoCall EXCEPT !.op = "add_pool", !.tokens = tokens, !.fee = fee],
                  add_pool(tokens, fee, storage_paid))

InitCreate ==
    /\ contract = "registry"
    /\ pools = <<>>
    /\ deposited_amounts = EmptyMap
    /\ uniswap = Uniswap_new(0)
    /\ bpool = BPool_new("factory")
    /\ last = NoCall

NextCreate == CreatePool

SpecCreate == InitCreate /\ [][NextCreate]_vars

-----------------------------------------------------------------------------
(* Properties of pool creation (SpecCreate) *)

\* Some token is named twice in the list.
HasDuplicate(tokens) ==
    \E i \in DOMAIN tokens, j \in DOMAIN tokens : i # j /\ tokens[i] = tokens[j]

\* C23: creating a pool whose token list has the same token twice is
\* denied, and no pool is added to the registry.
C23_DuplicateTokensDenied ==
    /\ [](\A tokens \in CreateTokenLists, fee \in Fees, storage_paid \in BOOLEAN :
            HasDuplicate(tokens)
            => LET r == add_pool(tokens, fee, storage_paid)
               IN ~r.ok /\ r.pools = pools)
    /\ [][(last'.op = "add_pool" /\ last'.ok) => ~HasDuplicate(last'.tokens)]_vars
    /\ [](\A i \in DOMAIN pools : ~HasDuplicate(pools[i].token_account_ids))

\* C24: with a fee below FEE_DIVISOR, creating a pool succeeds for every
\* list of distinct tokens of 2 to 10 tokens and fails for a list of fewer
\* than 2 or more than 10, so every pool of the registry has 2 to 10 tokens.
C24_TokenListLength ==
    /\ [](\A tokens \in CreateTokenLists, fee \in Fees :
            (fee < FEE_DIVISOR /\ ~HasDuplicate(tokens))
            => IF Len(tokens) \in 2..MAX_NUM_TOKENS
               THEN add_pool(tokens, fee, TRUE).ok
               ELSE \A storage_paid \in BOOLEAN : ~add_pool(tokens, fee, storage_paid).ok)
    /\ [][(last'.op = "add_pool" /\ last'.ok)
             => Len(last'.tokens) \in 2..MAX_NUM_TOKENS]_vars
    /\ [](\A i \in DOMAIN pools :
            Len(pools[i].token_account_ids) \in 2..MAX_NUM_TOKENS)

-----------------------------------------------------------------------------
(* Properties of the stored shares and balances *)

\* C25: in every reachable state of a pool, the Pool of multiswap or the
\* exchange, every reserve is 0 if the total share supply is 0.
C25_NoSupplyNoReserves ==
    /\ (contract = "pool" /\ pools[1].shares_total_supply = 0)
          => \A i \in DOMAIN pools[1].amounts : pools[1].amounts[i] = 0
    /\ (contract = "uniswap" /\ uniswap.shares_total_supply = 0)
          => uniswap.near_amount = 0 /\ uniswap.token_amount = 0

\* C26: in every reachable state no account has a stored share entry of 0,
\* in the Pool of multiswap and in the exchange.
C26_NoZeroShareEntry ==
    /\ contract = "pool"
          => \A a \in DOMAIN pools[1].shares : pools[1].shares[a] > 0
    /\ contract = "uniswap"
          => \A a \in DOMAIN uniswap.shares : uniswap.shares[a] > 0

\* C27: in every reachable state of the multiswap contract no entry of the
\* ledger, of any account and token, holds the value 0.
C27_NoZeroLedgerEntry ==
    \A a \in DOMAIN deposited_amounts :
        \A t \in DOMAIN deposited_amounts[a] : deposited_amounts[a][t] > 0

-----------------------------------------------------------------------------
(* multiswap: the contract with one pool and all its calls, and the        *)
(* registry filled by add_pool alone                                       *)

InitRegistry == Init \/ InitCreate

NextRegistry ==
    \/ contract = "multiswap" /\ Next
    \/ contract = "registry" /\ NextCreate

SpecRegistry == InitRegistry /\ [][NextRegistry]_vars

\* C28: pool ids are the index in the order of creation: a successful
\* add_pool returns the number of pools created before it and appends the
\* pool with the tokens and fee it was given, a failed add_pool takes no id,
\* the number of pools never goes down, and the token list and fee stored
\* under an id never change under any later operation.
C28_PoolIdsPermanent ==
    [][/\ (last'.op = "add_pool" /\ last'.ok)
          => /\ last'.ret = Len(pools)
             /\ Len(pools') = Len(pools) + 1
             /\ PoolAt(pools', last'.ret).token_account_ids = last'.tokens
             /\ PoolAt(pools', last'.ret).fee = last'.fee
       /\ ~(last'.op = "add_pool" /\ last'.ok) => Len(pools') = Len(pools)
       /\ Len(pools') >= Len(pools)
       /\ \A i \in DOMAIN pools :
             /\ pools'[i].token_account_ids = pools[i].token_account_ids
             /\ pools'[i].fee = pools[i].fee]_vars

\* A second pool has just been created and has been given the id 1; the
\* pool of id 0 has other tokens.
C28_Witness ==
    /\ last.op = "add_pool" /\ last.ok /\ last.ret = 1
    /\ Len(pools) = 2
    /\ PoolAt(pools, 1).token_account_ids = last.tokens
    /\ PoolAt(pools, 0).token_account_ids # last.tokens

-----------------------------------------------------------------------------
(* Properties of get_return and of ft_on_transfer of the contract (Spec) *)

\* C29: get_return is read-only: a call changes no reserve, share balance,
\* total supply or ledger balance, and two calls with the same arguments
\* with no other operation in between return the same value.
C29_GetReturnReadOnly ==
    [][/\ last'.op = "get_return"
          => /\ pools' = pools
             /\ deposited_amounts' = deposited_amounts
             /\ last'.promises = <<>>
       /\ (/\ last.op = "get_return" /\ last.ok
           /\ last'.op = "get_return" /\ last'.ok
           /\ last'.pool_id = last.pool_id /\ last'.token_in = last.token_in
           /\ last'.amount = last.amount /\ last'.token_out = last.token_out)
          => last'.ret = last.ret]_vars

\* get_return has just quoted a positive amount on a pool with liquidity.
C29_Witness ==
    /\ contract = "multiswap"
    /\ last.op = "get_return" /\ last.ok /\ last.ret > 0
    /\ PoolAt(pools, last.pool_id).shares_total_supply > 0

\* What a successful ft_on_transfer has kept of the amount transferred: the
\* growth of the sender's ledger balance of a deposit, the growth of the
\* pool's reserve of token_in of a swap.
Kept ==
    IF last'.msg = "deposit"
    THEN Ledger(deposited_amounts', last'.sender_id, last'.token_in)
             - Ledger(deposited_amounts, last'.sender_id, last'.token_in)
    ELSE LET i == token_index(PoolAt(pools, last'.pool_id), last'.token_in)
         IN PoolAt(pools', last'.pool_id).amounts[i]
                - PoolAt(pools, last'.pool_id).amounts[i]

\* C30: ft_on_transfer returns exactly the part of the amount transferred
\* that the contract did not take: the amount it keeps plus the amount it
\* returns is the amount transferred, so a deposit or swap accepted in full
\* returns 0.
C30_ReturnsUnused ==
    [][(last'.op = "ft_on_transfer" /\ last'.ok)
          => /\ Kept + last'.ret = last'.amount
             /\ Kept = last'.amount => last'.ret = 0]_vars

-----------------------------------------------------------------------------
(* Properties of a later provision to the exchange (SpecUniswap) *)

\* The least integer that is at least a / b.
CeilDiv(a, b) == (a + b - 1) \div b

\* C31: in a provision to an exchange that has shares already, the token
\* amount charged to the provider is rounded up, the least integer that is
\* at least near_amount * token_reserve / near_reserve, and the shares minted
\* to the provider are rounded down.
C31_ProvisionRoundsForPool ==
    [][(/\ last'.op = "uniswap.ft_on_transfer" /\ last'.msg = "liquidity" /\ last'.ok
        /\ uniswap.shares_total_supply > 0)
       => LET near_amount == last'.amounts_out[1]
          IN /\ last'.ret = CeilDiv(near_amount * uniswap.token_amount, uniswap.near_amount)
             /\ uniswap'.token_amount = uniswap.token_amount + last'.ret
             /\ last'.shares = (near_amount * uniswap.shares_total_supply)
                                   \div uniswap.near_amount]_vars

-----------------------------------------------------------------------------
(* uniswap: the arithmetic of finish_add_liquidity in the width of Balance. *)
(* Balance is u128; the model keeps the width and scales it down to 4 bits, *)
(* so that a product of two balances can pass the largest value.            *)

U128_MAX == 15

\* a * b on u128: the product when it fits; when it does not, a panic in a
\* build that checks overflow and the product modulo 2^width in one that
\* does not.  The result is the set of outcomes [ok, v].
mul_u128(a, b) ==
    IF a * b <= U128_MAX
    THEN {[ok |-> TRUE, v |-> a * b]}
    ELSE {[ok |-> FALSE, v |-> 0], [ok |-> TRUE, v |-> (a * b) % (U128_MAX + 1)]}

\* The two quotients of finish_add_liquidity when shares exist:
\*   expected_token_amount = near_amount * self.token_amount / self.near_amount
\*   liquidity_minted = near_amount * self.shares_total_supply / self.near_amount
\* The result is the set of outcomes [ok, expected_token_amount, liquidity_minted].
finish_add_liquidity_amounts(near_amount, token_reserve, near_reserve, shares_total_supply) ==
    {[ok |-> p.ok /\ q.ok,
      expected_token_amount |-> p.v \div near_reserve,
      liquidity_minted |-> q.v \div near_reserve] :
        p \in mul_u128(near_amount, token_reserve),
        q \in mul_u128(near_amount, shares_total_supply)}

Balances == 0..U128_MAX

\* finish_add_liquidity computes its two quotients from the operands drawn.
FinishAddLiquidityAmounts ==
    /\ last.op = "operands"
    /\ \E o \in finish_add_liquidity_amounts(last.min_amounts[1], last.min_amounts[2],
                                              last.min_amounts[3], last.min_amounts[4]) :
          last' = IF o.ok
                  THEN [last EXCEPT !.op = "finish_add_liquidity",
                                    !.ret = o.expected_token_amount,
                                    !.shares = o.liquidity_minted]
                  ELSE [Failed("finish_add_liquidity", "ERR_OVERFLOW")
                        EXCEPT !.min_amounts = last.min_amounts]
    /\ UNCHANGED <<contract, pools, deposited_amounts, uniswap, bpool>>

\* The operands are <<near_amount, token reserve, NEAR reserve, total supply>>
\* of an exchange that has shares.
InitMulDiv ==
    /\ contract = "math"
    /\ pools = <<>>
    /\ deposited_amounts = EmptyMap
    /\ uniswap = Uniswap_new(0)
    /\ bpool = BPool_new("factory")
    /\ \E near_amount \in Balances, token_reserve \in Balances,
          near_reserve \in Balances \ {0}, shares_total_supply \in Balances \ {0} :
          last = [NoCall EXCEPT !.op = "operands",
                                !.min_amounts = <<near_amount, token_reserve,
                                                  near_reserve, shares_total_supply>>]

NextMulDiv == FinishAddLiquidityAmounts

SpecMulDiv == InitMulDiv /\ [][NextMulDiv]_vars

\* C32: every multiplication followed by a division in the pricing and
\* share arithmetic gives exactly floor(a * b / c) for all operands of the
\* width of a balance: no product in between is truncated or wrapped.
C32_MulDivExact ==
    [][last'.op = "finish_add_liquidity"
       => LET near_amount == last.min_amounts[1]
              token_reserve == last.min_amounts[2]
              near_reserve == last.min_amounts[3]
              shares_total_supply == last.min_amounts[4]
          IN /\ last'.ok
             /\ last'.ret = (near_amount * token_reserve) \div near_reserve
             /\ last'.shares = (near_amount * shares_total_supply) \div near_reserve]_vars


\* ---------------------------------------------------------------------------
\* The token transfer of withdraw and its failure
\* ---------------------------------------------------------------------------

\* The ft_transfer promise of the last withdraw resolves as a failure.
\* withdraw attaches no callback to the promise, so no code of the contract
\* runs and the contract state stays as it is.
FtTransferFailed ==
    /\ contract = "multiswap"
    /\ last.op = "withdraw"
    /\ last.ok
    /\ last.promises # <<>>
    /\ last' = [last EXCEPT !.op = "withdraw.ft_transfer_failed", !.promises = <<>>]
    /\ UNCHANGED <<contract, pools, deposited_amounts, uniswap, bpool>>

NextWithdraw ==
    \/ Next
    \/ FtTransferFailed

SpecWithdraw == Init /\ [][NextWithdraw]_vars

LiquidityMsg == [kind |-> "liquidity", min_near_amount |-> 0]

\* C34: a pending NEAR deposit of the exchange is consumed exactly once.
\* add_liquidity adds the attached NEAR to the caller's pending entry and
\* changes neither the reserves nor the shares; a token transfer with message
\* "liquidity" succeeds only for a sender with a pending entry and removes
\* the entry; for a sender without a pending entry it fails with
\* ERR_NOT_ADD_LIQUIDITY and leaves the state unchanged.
C34_PendingConsumedOnce ==
    /\ [](\A sender_id \in Accounts, amount \in UniswapTokenAmounts :
            sender_id \notin DOMAIN uniswap.near_balances
            => LET r == Uniswap_ft_on_transfer(TOKEN_ACCOUNT, sender_id, amount, LiquidityMsg)
               IN ~r.ok /\ r.err = "ERR_NOT_ADD_LIQUIDITY" /\ r.uniswap = uniswap)
    /\ [][/\ last'.op = "uniswap.add_liquidity"
             => /\ last'.ok
                /\ uniswap' = [uniswap EXCEPT !.near_balances =
                                   MapInsert(@, last'.caller,
                                             MapGetOr(@, last'.caller, 0) + last'.amount)]
          /\ (last'.op = "uniswap.ft_on_transfer" /\ last'.msg = "liquidity" /\ last'.ok)
             => /\ last'.sender_id \in DOMAIN uniswap.near_balances
                /\ last'.sender_id \notin DOMAIN uniswap'.near_balances
          /\ (last'.op = "uniswap.ft_on_transfer" /\ ~last'.ok)
             => uniswap' = uniswap]_vars

\* C34 witness: a transfer with message "liquidity" has just consumed the
\* pending NEAR of its sender and minted shares for it, so that a second
\* transfer of the sender finds no pending entry.
C34_Witness ==
    /\ last.op = "uniswap.ft_on_transfer"
    /\ last.msg = "liquidity"
    /\ last.ok
    /\ last.shares > 0
    /\ last.amounts_out[1] > 0
    /\ last.sender_id \notin DOMAIN uniswap.near_balances

\* ---------------------------------------------------------------------------
\* Pool::swap and the reserve it pays from
\* ---------------------------------------------------------------------------

\* C35: Pool::swap never empties a reserve.  The amount_out of a successful
\* swap is strictly less than the reserve of token_out before the swap, and
\* the reserve after it is the difference, which is at least 1.
C35_SwapKeepsReserve ==
    [][(last'.op = "Pool::swap" /\ last'.ok)
       => LET out_idx == token_index(pools[1], last'.token_out)
          IN /\ last'.amount_out < pools[1].amounts[out_idx]
             /\ pools'[1].amounts[out_idx] = pools[1].amounts[out_idx] - last'.amount_out
             /\ pools'[1].amounts[out_idx] >= 1]_vars

\* C35 witness: a swap has paid out all of a reserve but its last unit.
C35_Witness ==
    /\ last.op = "Pool::swap"
    /\ last.ok
    /\ last.amount_out > 1
    /\ pools[1].amounts[token_index(pools[1], last.token_out)] = 1

\* ---------------------------------------------------------------------------
\* uniswap: the price of a requested output
\* ---------------------------------------------------------------------------

\* the largest reserve and the largest requested output of a price call
PriceMaxReserve == 8

PriceFees == {0, 3, 500}
PriceReserves == 0..PriceMaxReserve
PriceAmounts == 0..PriceMaxReserve

\* Contract::get_near_to_token_price.  The result is [ok, ret].
get_near_to_token_price(amount) ==
    get_output_price(uniswap.fee, amount, uniswap.near_amount, uniswap.token_amount)

\* Contract::get_token_to_near_price.  The result is [ok, ret].
get_token_to_near_price(amount) ==
    get_output_price(uniswap.fee, amount, uniswap.token_amount, uniswap.near_amount)

\* The end of a price call with outcome p; the call is a view.
PriceReturn(call, p) ==
    /\ last' = IF p.ok THEN [call EXCEPT !.ret = p.ret]
               ELSE Failed(call.op, "ERR_NO_LIQUIDITY")
    /\ UNCHANGED <<contract, pools, deposited_amounts, uniswap, bpool>>

GetNearToTokenPrice ==
    \E amount \in PriceAmounts :
        PriceReturn([NoCall EXCEPT !.op = "get_near_to_token_price", !.amount = amount],
                    get_near_to_token_price(amount))

GetTokenToNearPrice ==
    \E amount \in PriceAmounts :
        PriceReturn([NoCall EXCEPT !.op = "get_token_to_near_price", !.amount = amount],
                    get_token_to_near_price(amount))

\* The exchange after its first provision of liquidity: alice had near NEAR
\* pending and transferred token tokens with message "liquidity", which
\* become the reserves, and near shares are minted for her.
InitPrice ==
    /\ contract = "uniswap"
    /\ pools = <<>>
    /\ deposited_amounts = EmptyMap
    /\ \E fee \in PriceFees, near \in PriceReserves, token \in PriceReserves :
          uniswap = [Uniswap_new(fee) EXCEPT
                        !.shares_total_supply = near,
                        !.near_amount = near,
                        !.token_amount = token,
                        !.shares = add_to_collection(@, "alice", near)]
    /\ bpool = BPool_new("factory")
    /\ last = NoCall

NextPrice ==
    \/ GetNearToTokenPrice
    \/ GetTokenToNearPrice

SpecPrice == InitPrice /\ [][NextPrice]_vars

\* C36: the price of a requested output is a sufficient input.  When a price
\* call for the output amount x succeeds (input reserve > 0 and output
\* reserve > x), get_input_price of the amount it returns, on the same
\* reserves, is at least x.
C36_OutputPriceSuffices ==
    [][/\ (last'.op = "get_near_to_token_price" /\ last'.ok)
          => get_input_price(uniswap.fee, last'.ret, uniswap.near_amount,
                             uniswap.token_amount).ret >= last'.amount
       /\ (last'.op = "get_token_to_near_price" /\ last'.ok)
          => get_input_price(uniswap.fee, last'.ret, uniswap.token_amount,
                             uniswap.near_amount).ret >= last'.amount]_vars

\* ---------------------------------------------------------------------------
\* multiswap: the number of tokens of a deposit record
\* ---------------------------------------------------------------------------

\* the number of tokens the registration fee pays the storage of
MAX_NUMBER_OF_TOKENS == 10

\* alice registers
RegisterDepositor ==
    Return([NoCall EXCEPT !.op = "ar_register", !.caller = "alice", !.amount = 1],
           ar_register("alice", 1))

\* alice transfers one unit of any of eleven tokens with the message "deposit"
DepositToken ==
    \E i \in DOMAIN CreateTokens :
        LET t == [token_in |-> CreateTokens[i], sender_id |-> "alice", amount |-> 1,
                  msg |-> DepositMsg]
        IN Return(TransferCall(t), ft_on_transfer(t.token_in, t.sender_id, t.amount, t.msg))

NextDeposits ==
    \/ RegisterDepositor
    \/ DepositToken

SpecDeposits == Init /\ [][NextDeposits]_vars

\* C37: no account's deposit record ever holds more than
\* MAX_NUMBER_OF_TOKENS (10) distinct tokens.
C37_DepositRecordBounded ==
    \A account_id \in DOMAIN deposited_amounts :
        Cardinality(DOMAIN deposited_amounts[account_id]) <= MAX_NUMBER_OF_TOKENS

\* ---------------------------------------------------------------------------
\* multiswap: registration and the deposit record
\* ---------------------------------------------------------------------------

\* C38: registration never resets a ledger record.  ar_register for an
\* account that is already registered returns false and leaves every deposit
\* balance unchanged; a first registration returns true and creates an empty
\* record for the account, and changes no other record.
C38_RegisterKeepsRecord ==
    /\ [](\A account_id \in DOMAIN deposited_amounts, attached \in {0, 1} :
            LET r == ar_register(account_id, attached)
            IN r.ok /\ r.ret = FALSE /\ r.deposited_amounts = deposited_amounts)
    /\ [][(last'.op = "ar_register" /\ last'.ok)
          => IF last'.caller \in DOMAIN deposited_amounts
             THEN last'.ret = FALSE /\ deposited_amounts' = deposited_amounts
             ELSE /\ last'.ret = TRUE
                  /\ deposited_amounts' =
                         MapInsert(deposited_amounts, last'.caller, EmptyMap)]_vars

\* C38 witness: ar_register has returned false for an account that holds a
\* deposit, and the deposit is still there.
C38_Witness ==
    /\ last.op = "ar_register"
    /\ last.ok
    /\ last.ret = FALSE
    /\ last.caller \in DOMAIN deposited_amounts
    /\ \E token_id \in DOMAIN deposited_amounts[last.caller] :
          deposited_amounts[last.caller][token_id] > 0

\* ---------------------------------------------------------------------------
\* balancer-pool: the external calls of BPool
\* ---------------------------------------------------------------------------

\* the most pool shares of a reachable state, in units of INIT_POOL_SUPPLY
MaxSupplyFactor == 2

BAccounts == {"factory", "alice"}
BTokens == {"token1", "token2", "token3"}
BindBalances == {0, 1}
BindWeights == {BONE \div 2, BONE, 2 * BONE, MAX_WEIGHT + 1}
SwapFeeArgs == {0, MIN_FEE, MAX_FEE, MAX_FEE + 1}
PoolShareArgs == {0, INIT_POOL_SUPPLY}
LimitArgs == {<<>>, <<0, 0, 0>>, <<1, 1, 1>>}

\* The end of a BPool call with outcome r.
BReturn(call, r) ==
    /\ r.bpool.token.total_supply <= INIT_POOL_SUPPLY * MaxSupplyFactor
    /\ bpool' = r.bpool
    /\ last' = IF r.ok THEN [call EXCEPT !.ret = r.ret, !.promises = r.promises]
               ELSE Failed(call.op, r.err)
    /\ UNCHANGED <<contract, pools, deposited_amounts, uniswap>>

SetSwapFee ==
    \E predecessor \in BAccounts, swap_fee \in SwapFeeArgs :
        BReturn([NoCall EXCEPT !.op = "setSwapFee", !.caller = predecessor,
                               !.amount = swap_fee],
                setSwapFee(bpool, predecessor, swap_fee))

SetController ==
    \E predecessor \in BAccounts, controller \in BAccounts :
        BReturn([NoCall EXCEPT !.op = "setController", !.caller = predecessor,
                               !.sender_id = controller],
                setController(bpool, predecessor, controller))

SetPublicSwap ==
    \E predecessor \in BAccounts, public \in BOOLEAN :
        BReturn([NoCall EXCEPT !.op = "setPublicSwap", !.caller = predecessor,
                               !.public = public],
                setPublicSwap(bpool, predecessor, public))

Finalize ==
    \E predecessor \in BAccounts :
        BReturn([NoCall EXCEPT !.op = "finalize", !.caller = predecessor],
                finalize(bpool, predecessor))

Bind ==
    \E predecessor \in BAccounts, token \in BTokens, balance \in BindBalances,
       denorm \in BindWeights :
        BReturn([NoCall EXCEPT !.op = "bind", !.caller = predecessor, !.token_in = token,
                               !.amount = balance, !.denorm = denorm],
                bind(bpool, predecessor, token, balance, denorm))

Rebind ==
    \E predecessor \in BAccounts, token \in BTokens, balance \in BindBalances,
       denorm \in BindWeights :
        BReturn([NoCall EXCEPT !.op = "rebind", !.caller = predecessor, !.token_in = token,
                               !.amount = balance, !.denorm = denorm],
                rebind(bpool, predecessor, token, balance, denorm))

Unbind ==
    \E predecessor \in BAccounts, token \in BTokens :
        BReturn([NoCall EXCEPT !.op = "unbind", !.caller = predecessor, !.token_in = token],
                unbind(bpool, token))

Gulp ==
    \E predecessor \in BAccounts, token \in BTokens :
        BReturn([NoCall EXCEPT !.op = "gulp", !.caller = predecessor, !.token_in = token],
                gulp(bpool, token))

GetNormalizedWeight ==
    \E token \in BTokens :
        BReturn([NoCall EXCEPT !.op = "getNormalizedWeight", !.token_in = token],
                getNormalizedWeight(bpool, token))

JoinPool ==
    \E predecessor \in BAccounts, poolAmountOut \in PoolShareArgs,
       maxAmountsIn \in LimitArgs :
        BReturn([NoCall EXCEPT !.op = "joinPool", !.caller = predecessor,
                               !.amount = poolAmountOut, !.min_amounts = maxAmountsIn],
                joinPool(bpool, predecessor, poolAmountOut, maxAmountsIn))

ExitPool ==
    \E predecessor \in BAccounts, poolAmountIn \in PoolShareArgs,
       minAmountsOut \in LimitArgs :
        BReturn([NoCall EXCEPT !.op = "exitPool", !.caller = predecessor,
                               !.amount = poolAmountIn, !.min_amounts = minAmountsOut],
                exitPool(bpool, predecessor, poolAmountIn, minAmountsOut))

\* The pool as "factory" has deployed it.
InitBalancer ==
    /\ contract = "balancer"
    /\ pools = <<>>
    /\ deposited_amounts = EmptyMap
    /\ uniswap = Uniswap_new(0)
    /\ bpool = BPool_new("factory")
    /\ last = NoCall

NextBalancer ==
    \/ SetSwapFee
    \/ SetController
    \/ SetPublicSwap
    \/ Finalize
    \/ Bind
    \/ Rebind
    \/ Unbind
    \/ Gulp
    \/ GetNormalizedWeight
    \/ JoinPool
    \/ ExitPool

SpecBalancer == InitBalancer /\ [][NextBalancer]_vars

\* C39: getNormalizedWeight of a bound token succeeds and returns the
\* integer quotient denorm / total_weight, which is 0 whenever the token's
\* denormalized weight is smaller than the total weight, and so for every
\* token of a pool with two or more bound tokens.
C39_NormalizedWeightIsQuotient ==
    /\ [](\A token \in BTokens :
            isBound(bpool, token)
            => LET r == getNormalizedWeight(bpool, token)
               IN r.ok /\ (Len(bpool.tokens) >= 2 => r.ret = 0))
    /\ [][(last'.op = "getNormalizedWeight" /\ last'.ok)
          => LET denorm == bpool.records[last'.token_in].denorm
             IN /\ isBound(bpool, last'.token_in)
                /\ last'.ret = denorm \div bpool.total_weight
                /\ denorm < bpool.total_weight => last'.ret = 0
                /\ Len(bpool.tokens) >= 2 => last'.ret = 0]_vars

\* C39 witness: getNormalizedWeight has returned 0 for a token of a pool
\* with two bound tokens.
C39_Witness ==
    /\ last.op = "getNormalizedWeight"
    /\ last.ok
    /\ last.ret = 0
    /\ Len(bpool.tokens) >= 2
    /\ bpool.records[last.token_in].denorm >= MIN_WEIGHT

\* The denormalized weight of every token of the pool bp.
Weights(bp) == [token \in DOMAIN bp.records |-> bp.records[token].denorm]

\* C40: finalization is permanent and freezes the configuration.  finalize
\* succeeds only for the controller on a pool that is not finalized and has
\* at least MIN_BOUND_TOKENS (2) bound tokens; a finalized pool stays
\* finalized; on a finalized pool every bind, rebind, setSwapFee,
\* setPublicSwap and finalize call fails, and no call changes the token list,
\* the weights, the swap fee or the public-swap flag.
C40_FinalizedIsFrozen ==
    /\ [](bpool.finalized
          => \A predecessor \in BAccounts :
                /\ ~finalize(bpool, predecessor).ok
                /\ \A public \in BOOLEAN : ~setPublicSwap(bpool, predecessor, public).ok
                /\ \A swap_fee \in SwapFeeArgs : ~setSwapFee(bpool, predecessor, swap_fee).ok
                /\ \A token \in BTokens, balance \in BindBalances, denorm \in BindWeights :
                      /\ ~bind(bpool, predecessor, token, balance, denorm).ok
                      /\ ~rebind(bpool, predecessor, token, balance, denorm).ok)
    /\ [][/\ (last'.op = "finalize" /\ last'.ok)
             => /\ last'.caller = bpool.controller
                /\ ~bpool.finalized
                /\ Len(bpool.tokens) >= MIN_BOUND_TOKENS
                /\ bpool'.finalized
          /\ bpool.finalized
             => /\ bpool'.finalized
                /\ bpool'.tokens = bpool.tokens
                /\ Weights(bpool') = Weights(bpool)
                /\ bpool'.total_weight = bpool.total_weight
                /\ bpool'.swap_fee = bpool.swap_fee
                /\ bpool'.public_swap = bpool.public_swap
                /\ last'.op \in {"bind", "rebind", "setSwapFee", "setPublicSwap", "finalize"}
                   => ~last'.ok]_vars

\* C40 witness: a call of the controller that would change the
\* configuration has failed on a finalized pool with ERR_IS_FINALIZED.
C40_Witness ==
    /\ bpool.finalized
    /\ Len(bpool.tokens) >= MIN_BOUND_TOKENS
    /\ last.op \in {"setSwapFee", "setPublicSwap", "rebind"}
    /\ ~last.ok
    /\ last.err = "ERR_IS_FINALIZED"
====
